---- MODULE Spec2Model ----
(***************************************************************************)
(* Canonicalisation core of the Threads of Grace index builders:           *)
(* occasion keys and their liturgical order, scripture reference parsing,  *)
(* title grouping and display casing, and reuse detection.                 *)
(*                                                                         *)
(* Text is a TLA+ string; characters are one-character strings.  The two   *)
(* non-ASCII dashes the code names are written with stand-in characters    *)
(* (EmDash, EnDash) that occur nowhere else in the inputs.                 *)
(***************************************************************************)
EXTENDS Integers, Sequences, FiniteSets, TLC

VARIABLES
    pc,            \* position of the run: "start", then one value per step taken
    occasion,      \* the occasion text handed to normalize_occasion
    normalized,    \* normalize_occasion(occasion)
    renormalized,  \* normalize_occasion(normalized)
    lect_year,     \* get_lectionary_year(occasion), "None" when there is no marker
    sort_a,        \* first canonical key handed to get_occasion_sort_key
    sort_b,        \* second canonical key handed to get_occasion_sort_key
    key_a,         \* get_occasion_sort_key(sort_a), -1 before the call
    key_b,         \* get_occasion_sort_key(sort_b), -1 before the call
    citations,     \* the <<book, verse span>> citations a reading list was typed from
    readings,      \* the reading-list text handed to parse_scripture_references
    references,    \* the list parse_scripture_references returns
    title_a,       \* a title handed to the grouping-key functions
    title_b,       \* another spelling of the same title
    norm_a,        \* normalize_title_for_grouping(title_a)
    norm_b,        \* normalize_title_for_grouping(title_b)
    near_a,        \* normalize_for_grouping(title_a) of fix_titles.py
    near_b,        \* normalize_for_grouping(title_b) of fix_titles.py
    meditations,   \* the records handed to the title-index generators, in arrival order
    title_groups,  \* generate_title_index: grouping key -> record numbers of the group
    by_title,      \* generate_title_index_html: title -> record numbers of the group
    essays,        \* the meditation files: date and the texts of the <p> elements
    all_data,      \* the records extracted from them: date and content_hash
    by_hash,       \* content_hash -> record numbers of the content group
    unique_essays, \* len(by_hash)
    reuse_instances, \* the reported reuse count
    original,      \* fix_title: the title handed to smart_title_case
    fixed,         \* fix_title: smart_title_case(original)
    refixed,        \* smart_title_case(fixed), the fixed title handed in again
    primary,      \* a primary Sunday name
    compound,     \* the occasion text: the primary name followed by a secondary feast name
    compound_key, \* normalize_occasion(compound)
    primary_key,   \* normalize_occasion(primary)
    processed_groups, \* generate_title_index: the title groups with their canonical title, in page order
    index_data,   \* the records handed to the scripture-index generators: date, the citations typed, readings
    scripture_index, \* generate_scripture_index: the references of all records in insertion order
    sorted_books, \* generate_scripture_index: the book groups in page order
    sorted_refs,  \* generate_scripture_index: for each book group, its references in page order
    by_book,      \* generate_scripture_index_html: the items (book, ref, date) of all records in insertion order
    html_books,   \* generate_scripture_index_html: the book groups in page order
    html_items,    \* generate_scripture_index_html: for each book group, its items (ref, date) in page order
    arrival_a,    \* generate_lectionary_year_html: the records (all_data) in the order of the first run
    arrival_b,    \* the same records in the order of the second run
    by_year_a,    \* the first run: lectionary year -> its records with their canonical key, in arrival order
    pages_a,      \* the first run: lectionary year -> occasion groups in page order, each with its entries
    by_year_b,    \* the second run: the same
    pages_b,       \* the second run: the same
    spelling,     \* a title as typed, handed to the grouping-key functions
    group_key,    \* normalize_title_for_grouping(spelling) of generate_indexes.py
    group_rekey,  \* normalize_title_for_grouping(group_key)
    near_key,     \* normalize_for_grouping(spelling) of fix_titles.py
    near_rekey,    \* normalize_for_grouping(near_key)
    txt_files,    \* process_files: the .txt files of the input folder in sorted name order: name, title ('' when the content cannot be parsed)
    dry_run,      \* main: args.dry_run
    site,         \* the website directory: meditation pages (date, title), meditations-data.json, the dates listed on the index pages
    site_before,  \* the website directory before the run
    existing_dates, \* process_files: the stems of the meditation pages found at the start
    loaded_data,  \* process_files: all_data, the entries loaded from meditations-data.json plus the new ones
    existing_data_dates, \* process_files: the dates of loaded_data
    processed,    \* process_files: the entries of the files processed in this run
    file_index,    \* process_files: the number of .txt files handled so far
    file_dates,   \* add_missing_to_chrono: stems of the dated meditation files
    chrono_file,  \* chronological.html on disk: year sections with their listed dates
    soup,         \* the page in memory during a run
    missing,      \* missing dates not yet inserted, next first
    added,        \* entries added in the run
    run_no,       \* 1 in the first run, 2 in the immediate second run
    rewritten,    \* chronological.html was written in the run
    dry_run_chrono, \* --dry-run was given
    occasion_entries, \* generate_lectionary_year_html: the records of one occasion group, in arrival order
    display_names, \* occasion texts of the group (a set)
    readings_set, \* readings texts of the group (a set)
    occasion_display_a, \* heading of the group in one run
    readings_display_a, \* readings line of the group in one run
    occasion_display_b, \* heading of the group in another run
    readings_display_b, \* readings line of the group in another run
    html_files,   \* main of regenerate_all_indexes: the files of the meditations directory, in name order
    read_data,    \* all_data: the records read from them
    generator,    \* the page generator called
    outcome       \* how the call ended: ok or the exception raised

occVars == <<occasion, normalized, renormalized, lect_year>>
ordVars == <<sort_a, sort_b, key_a, key_b>>
scrVars == <<citations, readings, references>>
ttlVars == <<title_a, title_b, norm_a, norm_b, near_a, near_b>>
idxVars == <<meditations, title_groups, by_title>>
dupVars == <<essays, all_data, by_hash, unique_essays, reuse_instances>>
caseVars == <<original, fixed, refixed>>
cmpVars == <<primary, compound, compound_key, primary_key>>
grpVars == <<processed_groups>>
sixVars == <<index_data, scripture_index, sorted_books, sorted_refs, by_book, html_books, html_items>>
passVars == <<arrival_a, arrival_b, by_year_a, pages_a, by_year_b, pages_b>>
keyVars == <<spelling, group_key, group_rekey, near_key, near_rekey>>
procVars == <<txt_files, dry_run, site, site_before, existing_dates, loaded_data, existing_data_dates, processed, file_index>>
chrVars == <<file_dates, chrono_file, soup, missing, added, run_no, rewritten, dry_run_chrono>>
hdgVars == <<occasion_entries, display_names, readings_set, occasion_display_a, readings_display_a, occasion_display_b, readings_display_b>>
genVars == <<html_files, read_data, generator, outcome>>

(***************************************************************************)
(* Characters and Python's str / re primitives                             *)
(***************************************************************************)
WhiteSpace == {" ", "\t"}
DigitSeq == <<"0", "1", "2", "3", "4", "5", "6", "7", "8", "9">>
Digits == {DigitSeq[i] : i \in 1..10}
UpperSeq == <<"A", "B", "C", "D", "E", "F", "G", "H", "I", "J", "K", "L", "M",
              "N", "O", "P", "Q", "R", "S", "T", "U", "V", "W", "X", "Y", "Z">>
LowerSeq == <<"a", "b", "c", "d", "e", "f", "g", "h", "i", "j", "k", "l", "m",
              "n", "o", "p", "q", "r", "s", "t", "u", "v", "w", "x", "y", "z">>
UpperLetters == {UpperSeq[i] : i \in 1..26}
LowerLetters == {LowerSeq[i] : i \in 1..26}

Min(S) == CHOOSE x \in S : \A y \in S : x <= y
Max(S) == CHOOSE x \in S : \A y \in S : x >= y

\* s[i] as a one-character string
Ch(s, i) == SubSeq(s, i, i)
\* s[:n] and s[i:] with 1-based positions
Upto(s, n) == SubSeq(s, 1, n)
From(s, i) == SubSeq(s, i, Len(s))

\* sub occurs in s at position i
OccursAt(s, sub, i) == i >= 1 /\ i + Len(sub) - 1 <= Len(s) /\ SubSeq(s, i, i + Len(sub) - 1) = sub

\* str.find from position i: the first position >= i where sub occurs, 0 when none
Find(s, sub, i) ==
    LET hits == {k \in i..(Len(s) - Len(sub) + 1) : OccursAt(s, sub, k)}
    IN  IF hits = {} THEN 0 ELSE Min(hits)

\* sub in s
Contains(s, sub) == Find(s, sub, 1) # 0

\* s.startswith(sub)
StartsWith(s, sub) == OccursAt(s, sub, 1)

\* s.endswith(sub)
EndsWith(s, sub) == Len(sub) <= Len(s) /\ OccursAt(s, sub, Len(s) - Len(sub) + 1)

\* the first position >= i whose character is outside set, Len(s)+1 when none
SkipWhile(s, i, set) ==
    LET out == {k \in i..Len(s) : Ch(s, k) \notin set}
    IN  IF out = {} THEN Len(s) + 1 ELSE Min(out)

\* the start of the run of characters of set that ends just before position y
RunStartBefore(s, y, set) ==
    LET out == {k \in 1..(y - 1) : Ch(s, k) \notin set}
    IN  IF out = {} THEN 1 ELSE Max(out) + 1

\* s.rstrip(chars)
RStripChars(s, set) == Upto(s, RunStartBefore(s, Len(s) + 1, set) - 1)

\* s.lstrip(chars)
LStripChars(s, set) == From(s, SkipWhile(s, 1, set))

\* s.strip()
Strip(s) == LStripChars(RStripChars(s, WhiteSpace), WhiteSpace)

\* s.replace(old, new): every non-overlapping occurrence, left to right
RECURSIVE Replace(_, _, _)
Replace(s, old, new) ==
    LET p == Find(s, old, 1)
    IN  IF p = 0 THEN s
        ELSE Upto(s, p - 1) \o new \o Replace(From(s, p + Len(old)), old, new)

\* the first position >= i whose character is in set, Len(s)+1 when none
SkipUntil(s, i, set) ==
    LET hit == {k \in i..Len(s) : Ch(s, k) \in set}
    IN  IF hit = {} THEN Len(s) + 1 ELSE Min(hit)

\* re.sub(r'\s+', ' ', s): every run of whitespace becomes one space
RECURSIVE CollapseWhitespace(_)
CollapseWhitespace(s) ==
    IF s = "" THEN ""
    ELSE IF Ch(s, 1) \in WhiteSpace
         THEN " " \o CollapseWhitespace(From(s, SkipWhile(s, 1, WhiteSpace)))
         ELSE LET p == SkipUntil(s, 1, WhiteSpace)
              IN  Upto(s, p - 1) \o CollapseWhitespace(From(s, p))

\* re.sub('[c]', '', s) for one character c
RECURSIVE RemoveChar(_, _)
RemoveChar(s, c) ==
    LET p == Find(s, c, 1)
    IN  IF p = 0 THEN s ELSE Upto(s, p - 1) \o RemoveChar(From(s, p + 1), c)

\* int(digits) of a non-empty string of decimal digits
RECURSIVE ParseInt(_)
ParseInt(ds) ==
    IF ds = "" THEN 0
    ELSE ParseInt(Upto(ds, Len(ds) - 1)) * 10
         + ((CHOOSE d \in 1..10 : DigitSeq[d] = Ch(ds, Len(ds))) - 1)

\* str(n) of a natural number
RECURSIVE NatToStr(_)
NatToStr(n) ==
    IF n < 10 THEN DigitSeq[n + 1]
    ELSE NatToStr(n \div 10) \o DigitSeq[(n % 10) + 1]

\* f"{n:02d}"
Format02d(n) == IF n < 10 THEN "0" \o NatToStr(n) ELSE NatToStr(n)

\* str.lower() and str.upper() on one character
LowerCh(c) == IF c \in UpperLetters THEN LowerSeq[CHOOSE i \in 1..26 : UpperSeq[i] = c] ELSE c
UpperCh(c) == IF c \in LowerLetters THEN UpperSeq[CHOOSE i \in 1..26 : LowerSeq[i] = c] ELSE c

\* str.lower()
RECURSIVE Lower(_)
Lower(s) == IF s = "" THEN "" ELSE LowerCh(Ch(s, 1)) \o Lower(From(s, 2))

\* str.upper()
RECURSIVE Upper(_)
Upper(s) == IF s = "" THEN "" ELSE UpperCh(Ch(s, 1)) \o Upper(From(s, 2))

\* stand-ins for U+2014 (em dash) and U+2013 (en dash)
EmDash == "~"
EnDash == "^"

\* the characters of the model in code point order: the two dashes come
\* after every ASCII character (the grave accent is not a character of the model)
CharOrder ==
    "\t\n !\"#$%&'()*+,-./0123456789:;<=>?@ABCDEFGHIJKLMNOPQRSTUVWXYZ[\\]_abcdefghijklmnopqrstuvwxyz{|}"
        \o EnDash \o EmDash

\* ord(c), up to the order
CodeOf(c) == CHOOSE k \in 1..Len(CharOrder) : Ch(CharOrder, k) = c

\* a < b on str: lexicographic by code point
StrLess(a, b) ==
    LET n == IF Len(a) < Len(b) THEN Len(a) ELSE Len(b)
        d == {k \in 1..n : Ch(a, k) # Ch(b, k)}
    IN  IF d = {} THEN Len(a) < Len(b)
        ELSE CodeOf(Ch(a, Min(d))) < CodeOf(Ch(b, Min(d)))

\* sorted(seq, key=...): a stable sort; less[i, j] says that the key of seq[i]
\* is smaller than the key of seq[j]
SortedBy(seq, less) ==
    LET n == Len(seq)
        Before(i, j) == less[i, j] \/ (~less[j, i] /\ i < j)
        Rank(i) == Cardinality({j \in 1..n : j # i /\ Before(j, i)}) + 1
    IN  [p \in 1..n |-> seq[CHOOSE i \in 1..n : Rank(i) = p]]

(***************************************************************************)
(* Occasion canonicaliser: normalize_occasion, get_lectionary_year         *)
(***************************************************************************)

\* re.sub(r',?\s*Year\s+[ABC]$', '', s): the marker is removed only where it
\* ends the text
RemoveTrailingYear(s) ==
    LET n == Len(s)
        j == RunStartBefore(s, n, WhiteSpace) - 1   \* last character before the whitespace run
        y == j - 3                                  \* where "Year" would start
        w == RunStartBefore(s, y, WhiteSpace)
        start == IF w > 1 /\ Ch(s, w - 1) = "," THEN w - 1 ELSE w
    IN  IF n >= 1 /\ Ch(s, n) \in {"A", "B", "C"} /\ j < n - 1 /\ y >= 1 /\ OccursAt(s, "Year", y)
        THEN Upto(s, start - 1)
        ELSE s

\* re.search(r'Proper\s*(\d+)', s): the position of the first "Proper" that is
\* followed by optional whitespace and a digit, 0 when there is none
ProperMatch(s) ==
    LET hits == {p \in 1..Len(s) :
                    /\ OccursAt(s, "Proper", p)
                    /\ SkipWhile(s, p + 6, WhiteSpace) <= Len(s)
                    /\ Ch(s, SkipWhile(s, p + 6, WhiteSpace)) \in Digits}
    IN  IF hits = {} THEN 0 ELSE Min(hits)

\* group(1) of that match: the whole run of digits
ProperDigits(s, p) ==
    LET d == SkipWhile(s, p + 6, WhiteSpace)
    IN  SubSeq(s, d, SkipWhile(s, d, Digits) - 1)

\* re.sub(r'\s*[\("]?\(?Note:.*$', '', s): from the first "Note:", with up to two
\* opening characters and the whitespace before them, to the end of the text
RemoveNote(s) ==
    LET p  == Find(s, "Note:", 1)
        two == p > 2 /\ Ch(s, p - 1) = "(" /\ Ch(s, p - 2) \in {"(", "\""}
        one == p > 1 /\ Ch(s, p - 1) \in {"(", "\""}
        q  == IF two THEN p - 2 ELSE IF one THEN p - 1 ELSE p
    IN  IF p = 0 THEN s ELSE Upto(s, RunStartBefore(s, q, WhiteSpace) - 1)

\* re.sub(r'\s*' + name + '.*', '', s): from the whitespace before the first
\* occurrence of name to the end of the text
TruncateAt(s, name) ==
    LET p == Find(s, name, 1)
    IN  IF p = 0 THEN s ELSE Upto(s, RunStartBefore(s, p, WhiteSpace) - 1)

\* the str.replace chain of common variations
NormalizeVariations(s) ==
    LET r1 == Replace(s, "after Epiphany", "after the Epiphany")
        r2 == Replace(r1, "All Saints'", "All Saints")
        r3 == Replace(r2, "Twenty First", "Twenty-First")
        r4 == Replace(r3, "Twenty Second", "Twenty-Second")
        r5 == Replace(r4, "Twenty Third", "Twenty-Third")
        r6 == Replace(r5, "Twenty Fourth", "Twenty-Fourth")
        r7 == Replace(r6, "Twenty Fifth", "Twenty-Fifth")
        r8 == Replace(r7, "Twenty Sixth", "Twenty-Sixth")
    IN  Replace(r8, "Twenty Seventh", "Twenty-Seventh")

\* canonical_map, in the order of the dict literal
canonical_map ==
    << <<"Last Sunday after Epiphany", "Last Sunday after the Epiphany">>,
       <<"The Epiphany", "Epiphany">>,
       <<"The Holy Name", "Holy Name">>,
       <<"First Sunday after Christmas Day", "First Sunday after Christmas">>,
       <<"The Transfiguration", "Last Sunday after the Epiphany">>,
       <<"Presentation of Jesus in the Temple", "Fourth Sunday after the Epiphany">>,
       <<"All Saints RCL All Saints BCP (1) All Saints BCP (2)", "All Saints">>,
       <<"All Saints Sunday", "All Saints">> >>

\* the loop over canonical_map: the first entry whose text occurs in occ wins
ApplyCanonicalMap(occ) ==
    LET hits == {i \in 1..Len(canonical_map) : Contains(occ, canonical_map[i][1])}
    IN  IF hits = {} THEN occ ELSE canonical_map[Min(hits)][2]

\* the final compound test for All Saints
CompoundAllSaints(occ) ==
    IF /\ Contains(occ, " All Saints")
       /\ (StartsWith(occ, "Twenty") \/ StartsWith(occ, "Nineteenth") \/ StartsWith(occ, "Eighteenth"))
    THEN "All Saints"
    ELSE occ

\* lines 557-562: year marker, trailing backslash, whitespace, quotes
CleanOccasion(occ_in) ==
    LET a == Strip(RemoveTrailingYear(occ_in))
        b == Strip(RStripChars(a, {"\\"}))
        c == CollapseWhitespace(b)
    IN  RemoveChar(c, "\"")

\* the note removal alone, with a compound occasion left whole
PrimaryOccasionWhole(occ) == Strip(RemoveNote(occ))

\* lines 572-581: editorial note and compound occasions
PrimaryOccasion(occ) ==
    LET a == Strip(RemoveNote(occ))
        b == IF Contains(a, "The Baptism of Our Lord")
             THEN Strip(TruncateAt(a, "The Baptism of Our Lord")) ELSE a
    IN  IF Contains(b, "Christmas Eve") /\ Contains(b, "Advent")
        THEN Strip(TruncateAt(b, "Christmas Eve")) ELSE b

\* lines 584-622: variations, Easter/Christmas Day, canonical_map, All Saints
CanonicalName(occ) ==
    LET v == NormalizeVariations(occ)
    IN  IF StartsWith(v, "Easter Day") THEN "Easter Day"
        ELSE IF StartsWith(v, "Christmas Day") THEN "Christmas Day"
        ELSE CompoundAllSaints(ApplyCanonicalMap(v))

\* normalize_occasion with the Proper test moved after the name rules
normalize_occasion_names_first(occ_in) ==
    LET occ == CleanOccasion(occ_in)
        p   == ProperMatch(occ)
        c   == CanonicalName(PrimaryOccasion(occ))
    IN  IF c \in {"Easter Day", "Christmas Day", "All Saints", "Epiphany"} THEN c
        ELSE IF p # 0 THEN "Proper " \o Format02d(ParseInt(ProperDigits(occ, p)))
        ELSE c

normalize_occasion(occ_in) ==
    LET occ == CleanOccasion(occ_in)
        p   == ProperMatch(occ)
    IN  IF p # 0 THEN "Proper " \o Format02d(ParseInt(ProperDigits(occ, p)))
        ELSE CanonicalName(PrimaryOccasion(occ))

\* re.search(r'Year ([ABC])', occasion_full): the letter of the first marker,
\* "None" when there is none
get_lectionary_year(occasion_full) ==
    LET hits == {p \in 1..Len(occasion_full) :
                    /\ OccursAt(occasion_full, "Year ", p)
                    /\ p + 5 <= Len(occasion_full)
                    /\ Ch(occasion_full, p + 5) \in {"A", "B", "C"}}
    IN  IF hits = {} THEN "None" ELSE Ch(occasion_full, Min(hits) + 5)

(***************************************************************************)
(* Liturgical Order Table and get_occasion_sort_key                        *)
(***************************************************************************)
NamedOccasions ==
    << "First Sunday of Advent", "Second Sunday of Advent", "Third Sunday of Advent",
       "Fourth Sunday of Advent", "Christmas Day", "First Sunday after Christmas",
       "Second Sunday after Christmas", "Holy Name", "Epiphany",
       "First Sunday after the Epiphany", "Second Sunday after the Epiphany",
       "Third Sunday after the Epiphany", "Fourth Sunday after the Epiphany",
       "Fifth Sunday after the Epiphany", "Sixth Sunday after the Epiphany",
       "Seventh Sunday after the Epiphany", "Eighth Sunday after the Epiphany",
       "Last Sunday after the Epiphany", "Ash Wednesday", "First Sunday in Lent",
       "Second Sunday in Lent", "Third Sunday in Lent", "Fourth Sunday in Lent",
       "Fifth Sunday in Lent", "Palm Sunday", "Easter Day", "Second Sunday of Easter",
       "Third Sunday of Easter", "Fourth Sunday of Easter", "Fifth Sunday of Easter",
       "Sixth Sunday of Easter", "Seventh Sunday of Easter", "Day of Pentecost",
       "Trinity Sunday" >>

FirstProper == 3
LastProper == 29
NotFound == 999

\* for i in range(3, 30): order.append(f'Proper {i:02d}')
ProperOccasions == [i \in 1..(LastProper - FirstProper + 1) |-> "Proper " \o Format02d(i + FirstProper - 1)]

get_liturgical_order == NamedOccasions \o ProperOccasions \o <<"All Saints", "Christ the King">>

\* get_occasion_sort_key answering -1 for a key that is not in the table
get_occasion_sort_key_find(normalized_occasion) ==
    LET order == get_liturgical_order
        at == {i \in 1..Len(order) : order[i] = normalized_occasion}
    IN  IF at = {} THEN -1 ELSE Min(at) - 1

\* get_occasion_sort_key answering 999 for every key
get_occasion_sort_key_unranked(normalized_occasion) == NotFound

\* order.index(x): the first position of x, 0-based; 999 on ValueError
get_occasion_sort_key(normalized_occasion) ==
    LET order == get_liturgical_order
        at == {i \in 1..Len(order) : order[i] = normalized_occasion}
    IN  IF at = {} THEN NotFound ELSE Min(at) - 1

(***************************************************************************)
(* Occasion inputs: a name, an optional Proper number, an optional year    *)
(* marker and up to MaxNoise pieces of trailing noise                      *)
(***************************************************************************)
MaxNoise == 1

OccasionNames ==
    { "", "Twenty-First Sunday after Pentecost",
      "First Sunday after the Epiphany The Baptism of Our Lord",
      "Fourth Sunday of Advent Christmas Eve", "The Baptism of Our Lord",
      "All Saints' Day", "Feast of All Saints", "All Saints Sunday",
      "Easter Day Principal Service", "The Epiphany", "Last Sunday after Epiphany",
      "Presentation of Jesus in the Temple", "Thanksgiving Day", "Christ the King",
      "Second  Sunday of  Advent" }

ProperParts == {"", ", Proper 26", " Proper5", ", Proper 100", " Proper  07"}

YearParts == {"", ", Year A", " Year C"}

NoisePieces == {"\\", " ", "\"", " (Note: Episcopal readings differ)", ", Year B", " [Note: or Proper 5]"}

RECURSIVE NoiseRuns(_)
NoiseRuns(n) ==
    IF n = 0 THEN {""}
    ELSE NoiseRuns(n - 1) \cup {r \o x : r \in NoiseRuns(n - 1), x \in NoisePieces}

OccasionTexts ==
    {n \o p \o y \o z : n \in OccasionNames, p \in ProperParts, y \in YearParts, z \in NoiseRuns(MaxNoise)}

OccIdle == occasion = "" /\ normalized = "" /\ renormalized = "" /\ lect_year = "None"
OrdIdle == sort_a = "" /\ sort_b = "" /\ key_a = -1 /\ key_b = -1
ScrIdle == citations = <<>> /\ readings = "" /\ references = <<>>
TtlIdle == title_a = "" /\ title_b = "" /\ norm_a = "" /\ norm_b = "" /\ near_a = "" /\ near_b = ""
IdxIdle == meditations = <<>> /\ title_groups = <<>> /\ by_title = <<>>
DupIdle ==
    essays = <<>> /\ all_data = <<>> /\ by_hash = <<>> /\ unique_essays = 0 /\ reuse_instances = 0
CaseIdle == original = "" /\ fixed = "" /\ refixed = ""
CmpIdle == primary = "" /\ compound = "" /\ compound_key = "" /\ primary_key = ""
GrpIdle == processed_groups = <<>>
SixIdle ==
    /\ index_data = <<>> /\ scripture_index = <<>> /\ sorted_books = <<>> /\ sorted_refs = <<>>
    /\ by_book = <<>> /\ html_books = <<>> /\ html_items = <<>>
PassIdle ==
    /\ arrival_a = <<>> /\ arrival_b = <<>>
    /\ by_year_a = <<>> /\ pages_a = <<>> /\ by_year_b = <<>> /\ pages_b = <<>>
KeyIdle == spelling = "" /\ group_key = "" /\ group_rekey = "" /\ near_key = "" /\ near_rekey = ""
ProcIdle == txt_files = <<>> /\ dry_run = FALSE /\ site = <<>> /\ site_before = <<>> /\ existing_dates = {} /\ loaded_data = <<>> /\ existing_data_dates = {} /\ processed = <<>> /\ file_index = 0
ChrIdle == file_dates = {} /\ chrono_file = <<>> /\ soup = <<>> /\ missing = <<>> /\ added = 0 /\ run_no = 0 /\ rewritten = FALSE /\ dry_run_chrono = FALSE
HdgIdle == occasion_entries = <<>> /\ display_names = {} /\ readings_set = {} /\ occasion_display_a = "" /\ readings_display_a = "" /\ occasion_display_b = "" /\ readings_display_b = ""
GenIdle == html_files = <<>> /\ read_data = <<>> /\ generator = "" /\ outcome = ""

(***************************************************************************)
(* The occasion pass of generate_lectionary_year_html for one record       *)
(***************************************************************************)
InitOccasion ==
    /\ pc = "start"
    /\ occasion \in OccasionTexts
    /\ normalized = "" /\ renormalized = "" /\ lect_year = "None"
    /\ OrdIdle /\ ScrIdle /\ TtlIdle /\ IdxIdle /\ DupIdle /\ CaseIdle /\ CmpIdle /\ GrpIdle /\ SixIdle /\ PassIdle /\ KeyIdle /\ ProcIdle /\ ChrIdle /\ HdgIdle /\ GenIdle

GetLectionaryYear ==
    /\ pc = "start"
    /\ lect_year' = get_lectionary_year(occasion)
    /\ pc' = "year"
    /\ UNCHANGED <<occasion, normalized, renormalized, ordVars, scrVars, ttlVars, idxVars, dupVars, caseVars, cmpVars, grpVars, sixVars, passVars, keyVars, procVars, chrVars, hdgVars, genVars>>

NormalizeOccasion ==
    /\ pc = "year"
    /\ normalized' = normalize_occasion(occasion)
    /\ pc' = "normalized"
    /\ UNCHANGED <<occasion, renormalized, lect_year, ordVars, scrVars, ttlVars, idxVars, dupVars, caseVars, cmpVars, grpVars, sixVars, passVars, keyVars, procVars, chrVars, hdgVars, genVars>>

\* the canonical key handed to normalize_occasion again
RenormalizeOccasion ==
    /\ pc = "normalized"
    /\ renormalized' = normalize_occasion(normalized)
    /\ pc' = "renormalized"
    /\ UNCHANGED <<occasion, normalized, lect_year, ordVars, scrVars, ttlVars, idxVars, dupVars, caseVars, cmpVars, grpVars, sixVars, passVars, keyVars, procVars, chrVars, hdgVars, genVars>>

vars == <<pc, occVars, ordVars, scrVars, ttlVars, idxVars, dupVars, caseVars, cmpVars, grpVars, sixVars, passVars, keyVars, procVars, chrVars, hdgVars, genVars>>

NextOccasion == GetLectionaryYear \/ NormalizeOccasion \/ RenormalizeOccasion

SpecOccasion == InitOccasion /\ [][NextOccasion]_vars

(***************************************************************************)
(* sorted(year_data.keys(), key=get_occasion_sort_key) on two keys         *)
(***************************************************************************)
UnrankedKeys == {"", "Feast of All Saints", "Thanksgiving Day", "Proper 02", "Proper 30", "Proper 100"}

OrderKeys == {get_liturgical_order[i] : i \in 1..Len(get_liturgical_order)} \cup UnrankedKeys

InitOrder ==
    /\ pc = "start"
    /\ sort_a \in OrderKeys /\ sort_b \in OrderKeys
    /\ key_a = -1 /\ key_b = -1
    /\ OccIdle /\ ScrIdle /\ TtlIdle /\ IdxIdle /\ DupIdle /\ CaseIdle /\ CmpIdle /\ GrpIdle /\ SixIdle /\ PassIdle /\ KeyIdle /\ ProcIdle /\ ChrIdle /\ HdgIdle /\ GenIdle

SortOccasions ==
    /\ pc = "start"
    /\ key_a' = get_occasion_sort_key(sort_a)
    /\ key_b' = get_occasion_sort_key(sort_b)
    /\ pc' = "sorted"
    /\ UNCHANGED <<sort_a, sort_b, occVars, scrVars, ttlVars, idxVars, dupVars, caseVars, cmpVars, grpVars, sixVars, passVars, keyVars, procVars, chrVars, hdgVars, genVars>>

NextOrder == SortOccasions

SpecOrder == InitOrder /\ [][NextOrder]_vars

(***************************************************************************)
(* Claims on the occasion canonicaliser and the order table                *)
(***************************************************************************)

\* the canonical key each Proper part of the inputs names
ProperKeyOf(p) ==
    CASE p = ", Proper 26" -> "Proper 26"
      [] p = " Proper5" -> "Proper 05"
      [] p = ", Proper 100" -> "Proper 100"
      [] p = " Proper  07" -> "Proper 07"

\* C1: an occasion text that carries a Proper number N gets the key "Proper NN",
\* whatever name, feast or alias stands beside it, and the year of its marker.
C1_ProperPrecedence ==
    pc \in {"normalized", "renormalized"} =>
        \A p \in ProperParts \ {""} :
            Contains(occasion, p) =>
                /\ normalized = ProperKeyOf(p)
                /\ \A y \in YearParts \ {""} :
                       Contains(occasion, y) => lect_year = Ch(y, Len(y))

C1_Witness ==
    /\ pc = "normalized"
    /\ occasion = "Twenty-First Sunday after Pentecost, Proper 26, Year A"
    /\ normalized = "Proper 26"
    /\ lect_year = "A"

InTable(k) == \E i \in 1..Len(get_liturgical_order) : get_liturgical_order[i] = k

Precedes(a, b) ==
    \E i, j \in 1..Len(get_liturgical_order) :
        i < j /\ get_liturgical_order[i] = a /\ get_liturgical_order[j] = b

\* C2: two keys of the Liturgical Order Table compare by their sort keys as they
\* stand in the table, and a key outside the table sorts after every table key.
C2_OrderingStability ==
    pc = "sorted" =>
        /\ (InTable(sort_a) /\ InTable(sort_b)) => ((key_a < key_b) <=> Precedes(sort_a, sort_b))
        /\ (~InTable(sort_a) /\ InTable(sort_b)) => key_a > key_b

C2_Witness ==
    /\ pc = "sorted"
    /\ sort_a = "Proper 30" /\ sort_b = "Christ the King"
    /\ key_b = 62 /\ key_a > key_b

\* C8: normalising a canonical key again returns it unchanged.
C8_OccasionIdempotent ==
    pc = "renormalized" => renormalized = normalized

(***************************************************************************)
(* Scripture Reference Parser of generate_indexes.py                       *)
(***************************************************************************)

\* normalize_book_name: strip, "Psalms" -> "Psalm", one space after a leading digit
normalize_book_name(book_in) ==
    LET book == Strip(book_in)
        b1 == IF book = "Psalms" THEN "Psalm" ELSE book
        l  == SkipWhile(b1, 2, WhiteSpace)
    IN  IF /\ Len(b1) >= 1 /\ Ch(b1, 1) \in Digits
           /\ l <= Len(b1) /\ Ch(b1, l) \in (UpperLetters \cup LowerLetters)
        THEN Ch(b1, 1) \o " " \o From(b1, l)
        ELSE b1

\* \d?\s*[A-Z][a-z]+ at position i: the position after it, 0 when it does not match
BookWordEnd(s, i) ==
    LET p1 == IF i <= Len(s) /\ Ch(s, i) \in Digits THEN i + 1 ELSE i
        p2 == SkipWhile(s, p1, WhiteSpace)
        p3 == SkipWhile(s, p2 + 1, LowerLetters)
    IN  IF p2 <= Len(s) /\ Ch(s, p2) \in UpperLetters /\ p3 > p2 + 1 THEN p3 ELSE 0

\* (?:\s+of\s+[A-Z][a-z]+)? at position p: the position after it, p when it is absent
OfWordEnd(s, p) ==
    LET w  == SkipWhile(s, p, WhiteSpace)
        w2 == SkipWhile(s, w + 2, WhiteSpace)
        p4 == SkipWhile(s, w2 + 1, LowerLetters)
    IN  IF /\ w > p /\ OccursAt(s, "of", w) /\ w2 > w + 2
           /\ w2 <= Len(s) /\ Ch(s, w2) \in UpperLetters /\ p4 > w2 + 1
        THEN p4 ELSE p

\* the lookahead (?=\s*\d?\s*[A-Z][a-z]|$) at position e
NextBookAhead(s, e) ==
    LET a == SkipWhile(s, e, WhiteSpace)
        b == IF a <= Len(s) /\ Ch(s, a) \in Digits THEN a + 1 ELSE a
        c == SkipWhile(s, b, WhiteSpace)
    IN  \/ e = Len(s) + 1
        \/ /\ c + 1 <= Len(s) /\ Ch(s, c) \in UpperLetters /\ Ch(s, c + 1) \in LowerLetters

\* the characters of the verse group [\d:,\-\s]
VerseChars == Digits \cup {":", ",", "-"} \cup WhiteSpace

\* one attempt of the pattern at position i: [ok, book, verses, end]
MatchReference(s, i) ==
    LET p3  == BookWordEnd(s, i)
        w0  == OfWordEnd(s, p3)                        \* end of group 1
        w1  == SkipWhile(s, w0, WhiteSpace)            \* end of the whitespace after it
        lim == SkipWhile(s, w1, VerseChars)            \* first character no verse span holds
        es  == {e \in (w1 + 1)..lim : NextBookAhead(s, e)}
        none == [ok |-> FALSE, book |-> "", verses |-> "", end |-> 0]
    IN  IF p3 = 0 \/ w1 = w0 THEN none
        ELSE IF es # {}
             \* \s+ keeps the whole run, the lazy group stops at the first lookahead
             THEN [ok |-> TRUE, book |-> SubSeq(s, i, w0 - 1),
                   verses |-> SubSeq(s, w1, Min(es) - 1), end |-> Min(es)]
        ELSE IF w1 - w0 >= 2 /\ NextBookAhead(s, w1)
             \* \s+ gives its last character back to the verse group
             THEN [ok |-> TRUE, book |-> SubSeq(s, i, w0 - 1),
                   verses |-> Ch(s, w1 - 1), end |-> w1]
        ELSE none

\* re.findall(pattern, s): matches left to right, each search resuming where the
\* last match ended
RECURSIVE FindReferences(_, _)
FindReferences(s, i) ==
    IF i > Len(s) THEN <<>>
    ELSE LET m == MatchReference(s, i)
         IN  IF m.ok THEN <<m>> \o FindReferences(s, m.end)
             ELSE FindReferences(s, i + 1)

\* the loop body of parse_scripture_references for one match
ReferenceOf(m) ==
    LET book == normalize_book_name(m.book)
        verses == RStripChars(Strip(m.verses), {","})
    IN  [book |-> book, verses |-> verses, full |-> book \o " " \o verses]

parse_scripture_references(readings_str) ==
    IF readings_str = "" THEN <<>>
    ELSE LET matches == FindReferences(readings_str, 1)
         IN  [k \in 1..Len(matches) |-> ReferenceOf(matches[k])]

(***************************************************************************)
(* Reading lists: up to MaxCitations citations joined by ", "               *)
(***************************************************************************)
MaxCitations == 4

CitationPool ==
    { <<"Genesis", "21:8-21">>, <<"Psalm", "86:1-10, 16-17">>, <<"Romans", "6:1b-11">>,
      <<"Matthew", "10:24-39">>, <<"1 John", "3:1-7">> }

RECURSIVE CitationLists(_)
CitationLists(n) ==
    IF n = 0 THEN {<<>>}
    ELSE CitationLists(n - 1) \cup
         {Append(l, c) : l \in {x \in CitationLists(n - 1) : Len(x) = n - 1}, c \in CitationPool}

RECURSIVE JoinCitations(_)
JoinCitations(l) ==
    IF l = <<>> THEN ""
    ELSE IF Len(l) = 1 THEN l[1][1] \o " " \o l[1][2]
    ELSE l[1][1] \o " " \o l[1][2] \o ", " \o JoinCitations(Tail(l))

InitScripture ==
    /\ pc = "start"
    /\ citations \in CitationLists(MaxCitations)
    /\ readings = JoinCitations(citations)
    /\ references = <<>>
    /\ OccIdle /\ OrdIdle /\ TtlIdle /\ IdxIdle /\ DupIdle /\ CaseIdle /\ CmpIdle /\ GrpIdle /\ SixIdle /\ PassIdle /\ KeyIdle /\ ProcIdle /\ ChrIdle /\ HdgIdle /\ GenIdle

ParseScriptureReferences ==
    /\ pc = "start"
    /\ references' = parse_scripture_references(readings)
    /\ pc' = "parsed"
    /\ UNCHANGED <<citations, readings, occVars, ordVars, ttlVars, idxVars, dupVars, caseVars, cmpVars, grpVars, sixVars, passVars, keyVars, procVars, chrVars, hdgVars, genVars>>

NextScripture == ParseScriptureReferences

SpecScripture == InitScripture /\ [][NextScripture]_vars

\* C3: the parser returns one reference per cited book, in order of appearance.
C3_OneReferencePerCitation ==
    pc = "parsed" =>
        /\ Len(references) = Len(citations)
        /\ \A k \in 1..Len(citations) : k <= Len(references) => references[k].book = citations[k][1]

(***************************************************************************)
(* Title grouping keys: generate_indexes.py and fix_titles.py              *)
(***************************************************************************)
TerminalPunctuation == {"!", "?", ".", ",", ":", ";"}

\* normalize_title_for_grouping that keeps the case of the title
normalize_title_keep_case(title) ==
    Strip(RStripChars(Strip(title), TerminalPunctuation))

\* generate_indexes.py: strip, drop the trailing !?.,:; one by one, lower, strip
normalize_title_for_grouping(title) ==
    Strip(Lower(RStripChars(Strip(title), TerminalPunctuation)))

\* fix_titles.py: the same steps
normalize_for_grouping(title) ==
    LET normalized0 == Strip(title)
        normalized1 == RStripChars(normalized0, TerminalPunctuation)
    IN  Strip(Lower(normalized1))

(***************************************************************************)
(* Spellings of one title: case, surrounding whitespace and a trailing run *)
(* of at most MaxPunct terminal punctuation characters                     *)
(***************************************************************************)
MaxPunct == 1

TitleBases == {"Grace Abounding", "God's Love: A Story"}

RECURSIVE PunctRuns(_)
PunctRuns(n) ==
    IF n = 0 THEN {""}
    ELSE PunctRuns(n - 1) \cup {r \o c : r \in PunctRuns(n - 1), c \in TerminalPunctuation}

TrailingRuns == PunctRuns(MaxPunct) \cup {"..."}

Casings(base) == {base, Lower(base), Upper(base)}

\* spellings with a punctuation run only
PunctuatedSpellings(base) == {c \o r : c \in Casings(base), r \in TrailingRuns}

\* the spellings of the example: plain, with "!" and with "..."
ExampleSpellings(base) == {c \o r : c \in Casings(base), r \in {"", "!", "..."}}

\* spellings with surrounding whitespace as well
PaddedSpellings(base) ==
    {l \o t \o r : l \in {"", " "}, t \in PunctuatedSpellings(base), r \in {"", "  "}}

InitTitle ==
    /\ pc = "start"
    /\ \E base \in TitleBases :
          /\ title_a \in PaddedSpellings(base)
          /\ title_b \in ExampleSpellings(base)
    /\ norm_a = "" /\ norm_b = "" /\ near_a = "" /\ near_b = ""
    /\ OccIdle /\ OrdIdle /\ ScrIdle /\ IdxIdle /\ DupIdle /\ CaseIdle /\ CmpIdle /\ GrpIdle /\ SixIdle /\ PassIdle /\ KeyIdle /\ ProcIdle /\ ChrIdle /\ HdgIdle /\ GenIdle

\* generate_title_index computing the key of each title
GroupingKeys ==
    /\ pc = "start"
    /\ norm_a' = normalize_title_for_grouping(title_a)
    /\ norm_b' = normalize_title_for_grouping(title_b)
    /\ pc' = "grouped"
    /\ UNCHANGED <<title_a, title_b, near_a, near_b, occVars, ordVars, scrVars, idxVars, dupVars, caseVars, cmpVars, grpVars, sixVars, passVars, keyVars, procVars, chrVars, hdgVars, genVars>>

\* find_near_match_titles computing the key of each title
NearMatchKeys ==
    /\ pc = "grouped"
    /\ near_a' = normalize_for_grouping(title_a)
    /\ near_b' = normalize_for_grouping(title_b)
    /\ pc' = "near_matched"
    /\ UNCHANGED <<title_a, title_b, norm_a, norm_b, occVars, ordVars, scrVars, idxVars, dupVars, caseVars, cmpVars, grpVars, sixVars, passVars, keyVars, procVars, chrVars, hdgVars, genVars>>

NextTitle == GroupingKeys \/ NearMatchKeys

SpecTitle == InitTitle /\ [][NextTitle]_vars

\* C4: two spellings of a title that differ only in letter case, surrounding
\* whitespace and trailing terminal punctuation get the same grouping key from
\* both functions.
C4_SameGroupingKey ==
    /\ pc \in {"grouped", "near_matched"} => norm_a = norm_b
    /\ pc = "near_matched" => near_a = near_b /\ near_a = norm_a

C4_Witness ==
    /\ pc = "near_matched"
    /\ title_a = "Grace Abounding..." /\ title_b = "grace abounding!"
    /\ norm_a = "grace abounding" /\ norm_b = "grace abounding"
    /\ near_a = "grace abounding" /\ near_b = "grace abounding"

(***************************************************************************)
(* The two title-index generators                                          *)
(***************************************************************************)
MaxRecords == 3

TitlePool == {"Grace Abounding!", "grace abounding", "Grace Abounding...", "Amazing Love"}

\* the date of the k-th record read: files are read in name order, YYYY-MM-DD.html
DateOf(k) == "2020-01-0" \o NatToStr(k)

RECURSIVE TitleLists(_)
TitleLists(n) ==
    IF n = 0 THEN {<<>>}
    ELSE TitleLists(n - 1) \cup
         {Append(l, t) : l \in {x \in TitleLists(n - 1) : Len(x) = n - 1}, t \in TitlePool}

\* the members of a set of record numbers, in arrival order
RECURSIVE InOrder(_)
InOrder(S) == IF S = {} THEN <<>> ELSE <<Min(S)>> \o InOrder(S \ {Min(S)})

\* generate_title_index: title_groups[norm_title].append(med)
GroupByNormalizedTitle(meds) ==
    LET keys == {normalize_title_for_grouping(meds[i].title) : i \in 1..Len(meds)}
    IN  [k \in keys |->
            InOrder({i \in 1..Len(meds) : normalize_title_for_grouping(meds[i].title) = k})]

\* generate_title_index_html: by_title[title].append(entry) for each non-empty
\* stripped title
GroupByTitle(entries) ==
    LET titles == {Strip(entries[i].title) : i \in 1..Len(entries)} \ {""}
    IN  [t \in titles |->
            InOrder({i \in 1..Len(entries) : Strip(entries[i].title) = t})]

\* title_counts[t] of one group
TitleCount(meds, members, t) ==
    Cardinality({m \in 1..Len(members) : meds[members[m]].title = t})

\* max(title_counts.keys(), key=lambda t: (title_counts[t], t))
CanonicalTitleOf(meds, members) ==
    LET titles == {meds[members[m]].title : m \in 1..Len(members)}
        KeyLess(a, b) ==
            \/ TitleCount(meds, members, a) < TitleCount(meds, members, b)
            \/ (TitleCount(meds, members, a) = TitleCount(meds, members, b) /\ StrLess(a, b))
    IN  CHOOSE t \in titles : \A u \in titles \ {t} : KeyLess(u, t)

\* processed_groups: one entry per group of title_groups, in the order the
\* keys were first seen, then sorted by canonical_title.upper()
ProcessedGroups(meds) ==
    LET groups == GroupByNormalizedTitle(meds)
        firsts == InOrder({groups[k][1] : k \in DOMAIN groups})
        entry(i) ==
            LET k == normalize_title_for_grouping(meds[i].title)
                members == groups[k]
                meds_sorted ==
                    SortedBy(members, [a, b \in 1..Len(members) |->
                                          StrLess(meds[members[a]].date, meds[members[b]].date)])
            IN  [canonical_title |-> CanonicalTitleOf(meds, groups[k]),
                 norm_title |-> k,
                 meditations |-> meds_sorted,
                 count |-> Len(meds_sorted)]
        unsorted == [p \in 1..Len(firsts) |-> entry(firsts[p])]
    IN  SortedBy(unsorted, [g, h \in 1..Len(unsorted) |->
                               StrLess(Upper(unsorted[g].canonical_title),
                                       Upper(unsorted[h].canonical_title))])

InitTitleIndex ==
    /\ pc = "start"
    /\ \E l \in TitleLists(MaxRecords) :
          meditations = [k \in 1..Len(l) |-> [date |-> DateOf(k), title |-> l[k]]]
    /\ title_groups = <<>> /\ by_title = <<>>
    /\ OccIdle /\ OrdIdle /\ ScrIdle /\ TtlIdle /\ DupIdle /\ CaseIdle /\ CmpIdle /\ GrpIdle /\ SixIdle /\ PassIdle /\ KeyIdle /\ ProcIdle /\ ChrIdle /\ HdgIdle /\ GenIdle

\* generate_indexes.py
GenerateTitleIndex ==
    /\ pc = "start"
    /\ title_groups' = GroupByNormalizedTitle(meditations)
    /\ processed_groups' = ProcessedGroups(meditations)
    /\ pc' = "title_indexed"
    /\ UNCHANGED <<meditations, by_title, occVars, ordVars, scrVars, ttlVars, dupVars, caseVars, cmpVars, sixVars, passVars, keyVars, procVars, chrVars, hdgVars, genVars>>

\* regenerate_all_indexes.py
GenerateTitleIndexHtml ==
    /\ pc = "title_indexed"
    /\ by_title' = GroupByTitle(meditations)
    /\ pc' = "html_indexed"
    /\ UNCHANGED <<meditations, title_groups, occVars, ordVars, scrVars, ttlVars, dupVars, caseVars, cmpVars, grpVars, sixVars, passVars, keyVars, procVars, chrVars, hdgVars, genVars>>

NextTitleIndex == GenerateTitleIndex \/ GenerateTitleIndexHtml

SpecTitleIndex == InitTitleIndex /\ [][NextTitleIndex]_vars

\* records i and j are members of one group
SameGroup(groups, i, j) ==
    \E k \in DOMAIN groups :
        /\ \E m \in 1..Len(groups[k]) : groups[k][m] = i
        /\ \E m \in 1..Len(groups[k]) : groups[k][m] = j

SameGroupingKey(i, j) ==
    normalize_title_for_grouping(meditations[i].title)
        = normalize_title_for_grouping(meditations[j].title)

\* C5: in both title-index generators, records whose titles have the same
\* grouping key are members of one title group.
C5_SameKeyOneGroup ==
    /\ pc \in {"title_indexed", "html_indexed"} =>
           \A i, j \in 1..Len(meditations) :
               SameGroupingKey(i, j) => SameGroup(title_groups, i, j)
    /\ pc = "html_indexed" =>
           \A i, j \in 1..Len(meditations) :
               SameGroupingKey(i, j) => SameGroup(by_title, i, j)

(***************************************************************************)
(* Content Deduplicator: content_hash and the reuse statistics             *)
(***************************************************************************)

\* text = p.get_text().strip(); if text: content_paragraphs.append(text)
RECURSIVE content_paragraphs(_)
content_paragraphs(ps) ==
    IF ps = <<>> THEN <<>>
    ELSE IF Strip(Head(ps)) = "" THEN content_paragraphs(Tail(ps))
    ELSE <<Strip(Head(ps))>> \o content_paragraphs(Tail(ps))

\* '\n'.join(content_paragraphs)
RECURSIVE JoinLines(_)
JoinLines(ps) ==
    IF ps = <<>> THEN ""
    ELSE IF Len(ps) = 1 THEN ps[1]
    ELSE ps[1] \o "\n" \o JoinLines(Tail(ps))

\* hashlib.md5(content_text.encode()).hexdigest(): a digest, taken to be free of
\* collisions, so that it stands for the text it was computed from
Md5Hex(content_text) == "md5:" \o content_text

\* extract_meditation_data / parse_meditation_html: the fields the statistics use
extract_meditation_data(essay) ==
    [date |-> essay.date,
     content_hash |-> Md5Hex(JoinLines(content_paragraphs(essay.paragraphs)))]

\* by_hash that leaves out the records with an empty body
GroupByHashSkipEmpty(data) ==
    LET hashes == {data[i].content_hash : i \in 1..Len(data)} \ {Md5Hex("")}
    IN  [h \in hashes |-> InOrder({i \in 1..Len(data) : data[i].content_hash = h})]

\* by_hash[content_hash].append(entry) for every record; the digest is never empty
GroupByHash(data) ==
    LET hashes == {data[i].content_hash : i \in 1..Len(data)} \ {""}
    IN  [h \in hashes |-> InOrder({i \in 1..Len(data) : data[i].content_hash = h})]

\* generate_indexes.py: by_hash[med['content_hash']].append(med)
GroupByHashAll(meds) ==
    LET hashes == {meds[i].content_hash : i \in 1..Len(meds)}
    IN  [h \in hashes |-> InOrder({i \in 1..Len(meds) : meds[i].content_hash = h})]

BodyPool ==
    { <<"Grace to you.", "Peace.">>, <<"Grace to you.", "  ", "Peace.">>,
      <<" Grace to you. ", "Peace.">>, <<"Grace to you.\nPeace.">>,
      <<"Peace.">>, <<>> }

RECURSIVE BodyLists(_)
BodyLists(n) ==
    IF n = 0 THEN {<<>>}
    ELSE BodyLists(n - 1) \cup
         {Append(l, b) : l \in {x \in BodyLists(n - 1) : Len(x) = n - 1}, b \in BodyPool}

InitReuse ==
    /\ pc = "start"
    /\ \E l \in BodyLists(MaxRecords) :
          essays = [k \in 1..Len(l) |-> [date |-> DateOf(k), paragraphs |-> l[k]]]
    /\ all_data = <<>> /\ by_hash = <<>> /\ unique_essays = 0 /\ reuse_instances = 0
    /\ OccIdle /\ OrdIdle /\ ScrIdle /\ TtlIdle /\ IdxIdle /\ CaseIdle /\ CmpIdle /\ GrpIdle /\ SixIdle /\ PassIdle /\ KeyIdle /\ ProcIdle /\ ChrIdle /\ HdgIdle /\ GenIdle

\* main: one record per meditation file
ExtractMeditations ==
    /\ pc = "start"
    /\ all_data' = [k \in 1..Len(essays) |-> extract_meditation_data(essays[k])]
    /\ pc' = "extracted"
    /\ UNCHANGED <<essays, by_hash, unique_essays, reuse_instances,
                   occVars, ordVars, scrVars, ttlVars, idxVars, caseVars, cmpVars, grpVars, sixVars, passVars, keyVars, procVars, chrVars, hdgVars, genVars>>

\* regenerate_all_indexes.py
GenerateAppendixStatisticsHtml ==
    /\ pc = "extracted"
    /\ by_hash' = GroupByHash(all_data)
    /\ unique_essays' = Cardinality(DOMAIN by_hash')
    /\ reuse_instances' = Len(all_data) - unique_essays'
    /\ pc' = "statistics_html"
    /\ UNCHANGED <<essays, all_data, occVars, ordVars, scrVars, ttlVars, idxVars, caseVars, cmpVars, grpVars, sixVars, passVars, keyVars, procVars, chrVars, hdgVars, genVars>>

\* generate_indexes.py
GenerateStatisticsAppendix ==
    /\ pc = "extracted"
    /\ by_hash' = GroupByHashAll(all_data)
    /\ unique_essays' = Cardinality(DOMAIN by_hash')
    /\ reuse_instances' = Len(all_data) - unique_essays'
    /\ pc' = "statistics"
    /\ UNCHANGED <<essays, all_data, occVars, ordVars, scrVars, ttlVars, idxVars, caseVars, cmpVars, grpVars, sixVars, passVars, keyVars, procVars, chrVars, hdgVars, genVars>>

NextReuse == ExtractMeditations \/ GenerateAppendixStatisticsHtml \/ GenerateStatisticsAppendix

SpecReuse == InitReuse /\ [][NextReuse]_vars

\* the sum over all groups of (group size - 1)
RECURSIVE ExtraOccurrences(_, _)
ExtraOccurrences(groups, keys) ==
    IF keys = {} THEN 0
    ELSE LET k == CHOOSE x \in keys : TRUE
         IN  (Len(groups[k]) - 1) + ExtraOccurrences(groups, keys \ {k})

\* the non-empty paragraph texts of record i
ParagraphTexts(i) ==
    SelectSeq([k \in 1..Len(essays[i].paragraphs) |-> Strip(essays[i].paragraphs[k])],
              LAMBDA t : t # "")

\* C6: records with the same paragraph text are members of one content group,
\* members of one group have the same joined text, and the reuse count is the
\* number of records minus the number of groups, the sum of (group size - 1).
C6_ReuseCount ==
    pc \in {"statistics_html", "statistics"} =>
        /\ \A i, j \in 1..Len(essays) :
               /\ ParagraphTexts(i) = ParagraphTexts(j) => SameGroup(by_hash, i, j)
               /\ SameGroup(by_hash, i, j) =>
                      JoinLines(ParagraphTexts(i)) = JoinLines(ParagraphTexts(j))
        /\ reuse_instances = Len(essays) - Cardinality(DOMAIN by_hash)
        /\ reuse_instances = ExtraOccurrences(by_hash, DOMAIN by_hash)

C6_Witness ==
    /\ pc = "statistics_html"
    /\ Len(essays) = 2
    /\ essays[1].paragraphs = <<"Grace to you.", "Peace.">>
    /\ essays[2].paragraphs = <<"Grace to you.", "Peace.">>
    /\ essays[1].date # essays[2].date
    /\ Cardinality(DOMAIN by_hash) = 1
    /\ reuse_instances = 1

(***************************************************************************)
(* Display casing: smart_title_case of fix_titles.py                       *)
(***************************************************************************)
LOWERCASE_WORDS ==
    {"a", "an", "the", "and", "but", "or", "for", "nor", "on", "at", "to",
     "from", "by", "of", "in", "with", "as", "is", "it", "vs", "yet", "so"}

RomanNumerals == {"I", "II", "III", "IV", "V", "VI", "VII", "VIII", "IX", "X"}

\* the characters peeled off the front and off the end of a word
LeadingPunctuation == {"\"", "'", "("}
TrailingPunctuation == {"\"", "'", ")", ".", ",", "!", "?", ";", ":"}

Dashes == {"-", EnDash, EmDash}

\* re.sub(r'_+', ' / ', s)
RECURSIVE ReplaceUnderscores(_)
ReplaceUnderscores(s) ==
    IF s = "" THEN ""
    ELSE IF Ch(s, 1) = "_"
         THEN " / " \o ReplaceUnderscores(From(s, SkipWhile(s, 1, {"_"})))
         ELSE LET p == SkipUntil(s, 1, {"_"})
              IN  Upto(s, p - 1) \o ReplaceUnderscores(From(s, p))

\* re.sub(r'\s!', '!', s) for c = "!": only the one whitespace character next
\* to the mark is removed
RECURSIVE RemoveOneSpaceBefore(_, _)
RemoveOneSpaceBefore(s, c) ==
    IF s = "" THEN ""
    ELSE IF Ch(s, 1) \in WhiteSpace /\ Len(s) >= 2 /\ Ch(s, 2) = c
         THEN c \o RemoveOneSpaceBefore(From(s, 3), c)
         ELSE Ch(s, 1) \o RemoveOneSpaceBefore(From(s, 2), c)

\* re.sub(r'\s+!', '!', s) for c = "!": a whitespace run that ends at the mark
\* is removed
RECURSIVE RemoveSpaceBefore(_, _)
RemoveSpaceBefore(s, c) ==
    IF s = "" THEN ""
    ELSE IF Ch(s, 1) \in WhiteSpace
         THEN LET e == SkipWhile(s, 1, WhiteSpace)
              IN  IF e <= Len(s) /\ Ch(s, e) = c
                  THEN c \o RemoveSpaceBefore(From(s, e + 1), c)
                  ELSE Upto(s, e - 1) \o RemoveSpaceBefore(From(s, e), c)
         ELSE LET p == SkipUntil(s, 1, WhiteSpace)
              IN  Upto(s, p - 1) \o RemoveSpaceBefore(From(s, p), c)

\* re.sub(r'\s{2,}', ' ', s): a run of two or more whitespace characters
\* becomes one space, a single whitespace character stays as it is
RECURSIVE CollapseSpaces(_)
CollapseSpaces(s) ==
    IF s = "" THEN ""
    ELSE IF Ch(s, 1) \in WhiteSpace
         THEN LET e == SkipWhile(s, 1, WhiteSpace)
              IN  (IF e >= 3 THEN " " ELSE Ch(s, 1)) \o CollapseSpaces(From(s, e))
         ELSE LET p == SkipUntil(s, 1, WhiteSpace)
              IN  Upto(s, p - 1) \o CollapseSpaces(From(s, p))

\* the clean-up that precedes the casing
CleanTitle(t) ==
    LET t1 == IF Contains(t, "_____") THEN ReplaceUnderscores(t) ELSE t
        t2 == RemoveSpaceBefore(t1, "!")
        t3 == RemoveSpaceBefore(t2, "?")
        t4 == CollapseSpaces(t3)
    IN  Strip(t4)

\* str.split(): the maximal runs of non-whitespace characters
RECURSIVE Split(_)
Split(s) ==
    LET i == SkipWhile(s, 1, WhiteSpace)
    IN  IF i > Len(s) THEN <<>>
        ELSE LET e == SkipUntil(s, i, WhiteSpace)
             IN  <<SubSeq(s, i, e - 1)>> \o Split(From(s, e))

\* ' '.join(words)
RECURSIVE JoinWords(_)
JoinWords(words) ==
    IF Len(words) = 0 THEN ""
    ELSE IF Len(words) = 1 THEN words[1]
    ELSE words[1] \o " " \o JoinWords(Tail(words))

\* str.capitalize()
Capitalize(s) == IF s = "" THEN "" ELSE UpperCh(Ch(s, 1)) \o Lower(From(s, 2))

\* the word without its leading punctuation, and the punctuation
StripLeading(word) == LStripChars(word, LeadingPunctuation)
LeadingOf(word) == Upto(word, Len(word) - Len(StripLeading(word)))

\* core_word, and the trailing punctuation
CoreOf(word) == RStripChars(StripLeading(word), TrailingPunctuation)
TrailingOf(word) == From(StripLeading(word), Len(CoreOf(word)) + 1)

\* the Roman numeral branch
RomanCase(core, n) ==
    IF Upper(core) = "I" /\ n > 1 THEN "I" ELSE Upper(core)

\* a function word that is lower-cased wherever it stands
LowercaseWordAlways(core, result) == Lower(core)

\* the function word branch: lower case unless the word before it ends with a
\* colon or a dash
LowercaseWord(core, result) ==
    LET prev == RStripChars(result[Len(result)], WhiteSpace)
    IN  IF Len(result) > 0
           /\ ~(EndsWith(prev, ":") \/ EndsWith(prev, EmDash) \/ EndsWith(prev, EnDash))
        THEN Lower(core)
        ELSE Capitalize(core)

\* the contraction branch: the part before the first apostrophe is
\* capitalised, every part from the apostrophe on is lower-cased
Contraction(core) ==
    LET a == Find(core, "'", 1)
    IN  Capitalize(Upto(core, a - 1)) \o Lower(From(core, a))

\* the hyphen branch: every part between dashes is capitalised
RECURSIVE Hyphenated(_)
Hyphenated(core) ==
    LET p == SkipUntil(core, 1, Dashes)
    IN  IF p > Len(core) THEN Capitalize(core)
        ELSE Capitalize(Upto(core, p - 1)) \o Ch(core, p) \o Hyphenated(From(core, p + 1))

\* one turn of the loop over the words: word i of n, result holds the words cased so far
CaseWord(word, i, n, result) ==
    LET core == CoreOf(word)
        cased ==
            IF Upper(core) \in RomanNumerals THEN RomanCase(core, n)
            ELSE IF i > 1 /\ Lower(core) \in LOWERCASE_WORDS THEN LowercaseWord(core, result)
            ELSE IF Contains(core, "'") THEN Contraction(core)
            ELSE IF \E d \in Dashes : Contains(core, d) THEN Hyphenated(core)
            ELSE Capitalize(core)
    IN  IF core = "" THEN word
        ELSE LeadingOf(word) \o cased \o TrailingOf(word)

RECURSIVE CaseWords(_, _, _)
CaseWords(words, i, result) ==
    IF i > Len(words) THEN result
    ELSE CaseWords(words, i + 1, Append(result, CaseWord(words[i], i, Len(words), result)))

\* str.isupper(): a cased character, and no lower-case one
HasLower(t) == \E k \in 1..Len(t) : Ch(t, k) \in LowerLetters
HasUpper(t) == \E k \in 1..Len(t) : Ch(t, k) \in UpperLetters
IsUpper(t) == HasUpper(t) /\ ~HasLower(t)

\* smart_title_case behind the guard of title_case_smart: a title that is not
\* all upper-case is handed back as it came
smart_title_case_if_upper(t) ==
    IF ~IsUpper(t) THEN t
    ELSE JoinWords(CaseWords(Split(CleanTitle(t)), 1, <<>>))

smart_title_case(t) == JoinWords(CaseWords(Split(CleanTitle(t)), 1, <<>>))

(***************************************************************************)
(* fix_title on one title, and on the title it produced                    *)
(***************************************************************************)
MaxTokens == 2

TokenPool ==
    {"PART", "III:", "THE", "ROAD", "OF", "X", "A:", "HOME" \o EmDash, EnDash,
     "GOD'S", "WELL-BEING", "I", "the", "Road", "iii", "!", "?", "_____"}

Separators == {" ", "  "}

ExampleTitles ==
    {"PART III: THE ROAD HOME", "Part III: The Road Home", "  the road home ",
     "\tIT'S A  WONDERFUL LIFE !", "(THE) \"END\""}

RECURSIVE TokenLists(_)
TokenLists(n) ==
    IF n = 0 THEN {<<>>}
    ELSE TokenLists(n - 1) \cup
         {Append(l, w) : l \in {x \in TokenLists(n - 1) : Len(x) = n - 1}, w \in TokenPool}

RECURSIVE JoinWith(_, _)
JoinWith(words, sep) ==
    IF Len(words) = 0 THEN ""
    ELSE IF Len(words) = 1 THEN words[1]
    ELSE words[1] \o sep \o JoinWith(Tail(words), sep)

Titles == {JoinWith(l, sep) : l \in TokenLists(MaxTokens), sep \in Separators} \cup ExampleTitles

InitCase ==
    /\ pc = "start"
    /\ original \in Titles
    /\ fixed = "" /\ refixed = ""
    /\ OccIdle /\ OrdIdle /\ ScrIdle /\ TtlIdle /\ IdxIdle /\ DupIdle /\ CmpIdle /\ GrpIdle /\ SixIdle /\ PassIdle /\ KeyIdle /\ ProcIdle /\ ChrIdle /\ HdgIdle /\ GenIdle

FixTitle ==
    /\ pc = "start"
    /\ fixed' = smart_title_case(original)
    /\ pc' = "fixed"
    /\ UNCHANGED <<original, refixed, occVars, ordVars, scrVars, ttlVars, idxVars, dupVars, cmpVars, grpVars, sixVars, passVars, keyVars, procVars, chrVars, hdgVars, genVars>>

\* the fixed title handed to fix_title on the next run over the files
RefixTitle ==
    /\ pc = "fixed"
    /\ refixed' = smart_title_case(fixed)
    /\ pc' = "refixed"
    /\ UNCHANGED <<original, fixed, occVars, ordVars, scrVars, ttlVars, idxVars, dupVars, cmpVars, grpVars, sixVars, passVars, keyVars, procVars, chrVars, hdgVars, genVars>>

NextCase == FixTitle \/ RefixTitle

SpecCase == InitCase /\ [][NextCase]_vars

\* the tokens of the title, each with a core, none of them an underscore line
TitleTokens == Split(original)
FixedTokens == Split(fixed)
PlainTokens ==
    /\ ~Contains(original, "_")
    /\ \A i \in 1..Len(TitleTokens) : CoreOf(TitleTokens[i]) # ""

RomanTwoToTen == RomanNumerals \ {"I"}

AfterColonOrDash(i) ==
    i > 1 /\ \E c \in {":", EmDash, EnDash} : EndsWith(TitleTokens[i - 1], c)

\* token i with its core replaced
WithCore(i, core) == LeadingOf(TitleTokens[i]) \o core \o TrailingOf(TitleTokens[i])

\* C7: in the display casing of an ALL-CAPS title the first token starts with
\* its upper-case letter, a Roman numeral II..X stays upper-case, a function
\* word is lower-cased unless it is the first token or follows a token ending
\* in a colon or dash, where it is capitalised; the example title becomes
\* 'Part III: The Road Home'.
C7_DisplayCasing ==
    (pc \in {"fixed", "refixed"} /\ IsUpper(original)) =>
        /\ original = "PART III: THE ROAD HOME" => fixed = "Part III: The Road Home"
        /\ PlainTokens =>
              /\ Len(FixedTokens) = Len(TitleTokens)
              /\ Len(TitleTokens) >= 1 =>
                    Ch(CoreOf(FixedTokens[1]), 1) = Ch(CoreOf(TitleTokens[1]), 1)
              /\ \A i \in 1..Len(TitleTokens) :
                    LET core == CoreOf(TitleTokens[i])
                    IN  /\ core \in RomanTwoToTen => FixedTokens[i] = TitleTokens[i]
                        /\ Lower(core) \in LOWERCASE_WORDS =>
                              FixedTokens[i] =
                                  IF i = 1 \/ AfterColonOrDash(i)
                                  THEN WithCore(i, Capitalize(core))
                                  ELSE WithCore(i, Lower(core))

C7_Witness ==
    /\ pc = "fixed"
    /\ original = "PART III: THE ROAD HOME"
    /\ fixed = "Part III: The Road Home"

\* C9: casing the cased title again gives the cased title.
C9_CasingIdempotent ==
    pc = "refixed" => refixed = fixed

C9_Witness ==
    /\ pc = "refixed"
    /\ original = "\tIT'S A  WONDERFUL LIFE !"
    /\ fixed = "It's a Wonderful Life!"
    /\ refixed = fixed

\* C10 as stated: a title with a lower-case letter is returned unchanged.
C10_NonUpperUnchanged ==
    (pc \in {"fixed", "refixed"} /\ HasLower(original)) => fixed = original

\* C10: a title with a lower-case letter is cased exactly as its upper-cased
\* form is; there is no case in which the transform looks at the letter case
\* of its input.
C10_CasedAsUpperForm ==
    (pc \in {"fixed", "refixed"} /\ HasLower(original)) =>
        fixed = smart_title_case(Upper(original))

C10_Witness ==
    /\ pc = "fixed"
    /\ original = "  the road home "
    /\ fixed = "The Road Home"

(***************************************************************************)
(* Occasion keys: year marker, All Saints, editorial notes                 *)
(***************************************************************************)
YearLetters == {"A", "B", "C"}

\* the text with the letter of every year marker replaced by l
RECURSIVE WithYearLetter(_, _)
WithYearLetter(s, l) ==
    LET hits == {p \in 1..Len(s) : OccursAt(s, "Year ", p) /\ p + 5 <= Len(s)
                                      /\ Ch(s, p + 5) \in YearLetters}
    IN  IF hits = {} THEN s
        ELSE LET p == Min(hits)
             IN  Upto(s, p + 4) \o l \o WithYearLetter(From(s, p + 6), l)

\* C13: the canonical key holds no year marker, and the key does not depend
\* on the year letter of the occasion text.
C13_YearMarkerRemoved ==
    pc \in {"normalized", "renormalized"} =>
        /\ get_lectionary_year(normalized) = "None"
        /\ \A l \in YearLetters : normalize_occasion(WithYearLetter(occasion, l)) = normalized

\* C14: a text that contains 'All Saints' and no Proper number gets the key
\* 'All Saints'.
C14_AllSaintsAlias ==
    (pc \in {"normalized", "renormalized"}
        /\ Contains(occasion, "All Saints") /\ ~Contains(occasion, "Proper")) =>
        normalized = "All Saints"

\* where the first editorial note of the text opens, 0 when there is none
NoteStart(s) ==
    LET hits == {p \in 1..Len(s) : OccursAt(s, "(Note:", p) \/ OccursAt(s, "[Note:", p)}
    IN  IF hits = {} THEN 0 ELSE Min(hits)

\* C15: the key of a text with an editorial note is the key of the text that
\* precedes the note.
C15_NoteStripped ==
    (pc \in {"normalized", "renormalized"} /\ NoteStart(occasion) # 0) =>
        normalized = normalize_occasion(Upto(occasion, NoteStart(occasion) - 1))

(***************************************************************************)
(* Compound occasions: a primary Sunday followed by a secondary feast      *)
(***************************************************************************)
\* the Sundays of the order table, and spellings the variation rules know
PrimarySundays ==
    {NamedOccasions[i] : i \in {k \in 1..Len(NamedOccasions) : Contains(NamedOccasions[k], "Sunday")}}
        \cup {"First Sunday after Epiphany", "Last Sunday after Epiphany",
              "First Sunday after Christmas Day", "Twenty First Sunday after Pentecost"}

SecondaryFeasts == {"The Baptism of Our Lord", "Christmas Eve"}

CompoundJoints == {" ", "  "}

CompoundTails == {"", ", Year A", " (white)"}

\* 'Christmas Eve' is a secondary name only after an Advent Sunday
CompoundTexts(p) ==
    {p \o j \o s \o t : j \in CompoundJoints, t \in CompoundTails,
                        s \in {x \in SecondaryFeasts : x = "Christmas Eve" => Contains(p, "Advent")}}

InitCompound ==
    /\ pc = "start"
    /\ primary \in PrimarySundays
    /\ compound \in CompoundTexts(primary)
    /\ compound_key = "" /\ primary_key = ""
    /\ OccIdle /\ OrdIdle /\ ScrIdle /\ TtlIdle /\ IdxIdle /\ DupIdle /\ CaseIdle /\ GrpIdle /\ SixIdle /\ PassIdle /\ KeyIdle /\ ProcIdle /\ ChrIdle /\ HdgIdle /\ GenIdle

\* the grouping loop on a record whose occasion is the compound text
KeyCompound ==
    /\ pc = "start"
    /\ compound_key' = normalize_occasion(compound)
    /\ pc' = "compound_keyed"
    /\ UNCHANGED <<primary, compound, primary_key,
                   occVars, ordVars, scrVars, ttlVars, idxVars, dupVars, caseVars, grpVars, sixVars, passVars, keyVars, procVars, chrVars, hdgVars, genVars>>

\* the grouping loop on a record whose occasion is the primary name alone
KeyPrimary ==
    /\ pc = "compound_keyed"
    /\ primary_key' = normalize_occasion(primary)
    /\ pc' = "primary_keyed"
    /\ UNCHANGED <<primary, compound, compound_key,
                   occVars, ordVars, scrVars, ttlVars, idxVars, dupVars, caseVars, grpVars, sixVars, passVars, keyVars, procVars, chrVars, hdgVars, genVars>>

NextCompound == KeyCompound \/ KeyPrimary

SpecCompound == InitCompound /\ [][NextCompound]_vars

\* C16: the key of a primary Sunday name followed by a secondary feast name
\* is the key of the primary name on its own, and holds nothing of the
\* secondary name.
C16_CompoundResolution ==
    pc = "primary_keyed" =>
        /\ compound_key = primary_key
        /\ \A s \in SecondaryFeasts : ~Contains(compound_key, s)

C16_Witness ==
    /\ pc = "primary_keyed"
    /\ compound = "First Sunday after the Epiphany The Baptism of Our Lord"
    /\ compound_key = "First Sunday after the Epiphany"
    /\ primary_key = "First Sunday after the Epiphany"

(***************************************************************************)
(* The canonical display title of a title group                            *)
(***************************************************************************)
\* the exact spellings of the members of a group, and how often each occurs
SpellingsOf(g) == {meditations[g.meditations[m]].title : m \in 1..Len(g.meditations)}
OccurrencesOf(g, t) == TitleCount(meditations, g.meditations, t)
MostFrequent(g) ==
    {t \in SpellingsOf(g) : \A u \in SpellingsOf(g) : OccurrencesOf(g, u) <= OccurrencesOf(g, t)}

\* C17: the canonical title of a group is one of the most frequent spellings
\* of its members, and the lexicographically first of them.
C17_CanonicalTitle ==
    pc \in {"title_indexed", "html_indexed"} =>
        \A n \in 1..Len(processed_groups) :
            LET g == processed_groups[n]
            IN  /\ g.canonical_title \in MostFrequent(g)
                /\ \A u \in MostFrequent(g) \ {g.canonical_title} : StrLess(g.canonical_title, u)

(***************************************************************************)
(* Scripture index of generate_indexes.py: generate_scripture_index        *)
(***************************************************************************)
BOOK_ORDER ==
    << "Genesis", "Exodus", "Leviticus", "Numbers", "Deuteronomy",
       "Joshua", "Judges", "Ruth", "1 Samuel", "2 Samuel",
       "1 Kings", "2 Kings", "1 Chronicles", "2 Chronicles",
       "Ezra", "Nehemiah", "Esther", "Job", "Psalm",
       "Proverbs", "Ecclesiastes", "Song of Solomon", "Song of Songs",
       "Isaiah", "Jeremiah", "Lamentations", "Ezekiel", "Daniel",
       "Hosea", "Joel", "Amos", "Obadiah", "Jonah", "Micah",
       "Nahum", "Habakkuk", "Zephaniah", "Haggai", "Zechariah", "Malachi",
       "Matthew", "Mark", "Luke", "John", "Acts",
       "Romans", "1 Corinthians", "2 Corinthians", "Galatians", "Ephesians",
       "Philippians", "Colossians", "1 Thessalonians", "2 Thessalonians",
       "1 Timothy", "2 Timothy", "Titus", "Philemon",
       "Hebrews", "James", "1 Peter", "2 Peter",
       "1 John", "2 John", "3 John", "Jude", "Revelation" >>

\* book.lower() of every entry of BOOK_ORDER
BOOK_ORDER_lower == [i \in 1..Len(BOOK_ORDER) |-> Lower(BOOK_ORDER[i])]

UnknownBookIndex == 999
NoChapter == 999

\* get_book_sort_key: (idx, normalized); the exact entry, else the first entry
\* the name starts with (case-insensitive), else 999
get_book_sort_key(book_name) ==
    LET name == normalize_book_name(book_name)
        lower == Lower(name)
        exact == {i \in 1..Len(BOOK_ORDER) : BOOK_ORDER[i] = name}
        partial == {i \in 1..Len(BOOK_ORDER) : StartsWith(lower, BOOK_ORDER_lower[i])}
    IN  IF exact # {} THEN <<Min(exact) - 1, name>>
        ELSE IF partial # {} THEN <<Min(partial) - 1, name>>
        ELSE <<UnknownBookIndex, name>>

\* (idx, normalized) < (idx, normalized) on tuples
BookSortKeyLess(a, b) == a[1] < b[1] \/ (a[1] = b[1] /\ StrLess(a[2], b[2]))

\* ref_sort_key: re.search(r'(\d+):?(\d*)', ref) on the whole reference text,
\* the book name included
ref_sort_key(ref) ==
    LET d == SkipUntil(ref, 1, Digits)
        e == SkipWhile(ref, d, Digits)
        c == IF e <= Len(ref) /\ Ch(ref, e) = ":" THEN e + 1 ELSE e
        v == SubSeq(ref, c, SkipWhile(ref, c, Digits) - 1)
    IN  IF d > Len(ref) THEN <<NoChapter, NoChapter>>
        ELSE <<ParseInt(SubSeq(ref, d, e - 1)), IF v = "" THEN 0 ELSE ParseInt(v)>>

\* (chap, verse) < (chap, verse) on tuples
PairLess(a, b) == a[1] < b[1] \/ (a[1] = b[1] /\ a[2] < b[2])

\* the distinct elements of a sequence, in the order they first occur
RECURSIVE Distinct(_)
Distinct(seq) ==
    IF seq = <<>> THEN <<>>
    ELSE LET init == Distinct(Upto(seq, Len(seq) - 1))
             last == seq[Len(seq)]
         IN  IF \E k \in 1..Len(init) : init[k] = last THEN init ELSE Append(init, last)

\* concatenation of a sequence of sequences
RECURSIVE Flatten(_)
Flatten(seqs) == IF seqs = <<>> THEN <<>> ELSE seqs[1] \o Flatten(Tail(seqs))

\* every reference of every record, in the order the loop meets them
AllReferences(meds) ==
    Flatten([k \in 1..Len(meds) |-> parse_scripture_references(meds[k].readings)])

\* the keys of scripture_index in insertion order, sorted by get_book_sort_key
SortedBooks(refs) ==
    LET books == Distinct([k \in 1..Len(refs) |-> refs[k].book])
        keys == [k \in 1..Len(books) |-> get_book_sort_key(books[k])]
    IN  SortedBy(books, [a, b \in 1..Len(books) |-> BookSortKeyLess(keys[a], keys[b])])

\* the keys of scripture_index[book] in insertion order, sorted by ref_sort_key
SortedRefs(refs, book) ==
    LET mine == SelectSeq(refs, LAMBDA r : r.book = book)
        fulls == Distinct([k \in 1..Len(mine) |-> mine[k].full])
        keys == [k \in 1..Len(fulls) |-> ref_sort_key(fulls[k])]
    IN  SortedBy(fulls, [a, b \in 1..Len(fulls) |-> PairLess(keys[a], keys[b])])

(***************************************************************************)
(* Scripture index of regenerate_all_indexes.py:                           *)
(* generate_scripture_index_html                                           *)
(***************************************************************************)
book_order ==
    << "Genesis", "Exodus", "Leviticus", "Numbers", "Deuteronomy",
       "Joshua", "Judges", "Ruth", "1 Samuel", "2 Samuel", "I Samuel", "II Samuel",
       "1 Kings", "2 Kings", "I Kings", "II Kings",
       "1 Chronicles", "2 Chronicles", "Ezra", "Nehemiah", "Esther",
       "Job", "Psalm", "Proverbs", "Ecclesiastes", "Song of Solomon", "Song of Songs",
       "Isaiah", "Jeremiah", "Lamentations", "Ezekiel", "Daniel",
       "Hosea", "Joel", "Amos", "Obadiah", "Jonah", "Micah",
       "Nahum", "Habakkuk", "Zephaniah", "Haggai", "Zechariah", "Malachi",
       "Sirach", "Wisdom", "Wisdom of Solomon", "Baruch", "Canticle",
       "Matthew", "Mark", "Luke", "John", "Acts",
       "Romans", "1 Corinthians", "2 Corinthians", "I Corinthians", "II Corinthians",
       "Galatians", "Ephesians", "Philippians", "Colossians",
       "1 Thessalonians", "2 Thessalonians", "I Thessalonians", "II Thessalonians",
       "1 Timothy", "2 Timothy", "I Timothy", "II Timothy",
       "Titus", "Philemon", "Hebrews", "James",
       "1 Peter", "2 Peter", "I Peter", "II Peter",
       "1 John", "2 John", "3 John", "I John", "II John", "III John",
       "Jude", "Revelation" >>

\* b.lower() of every entry of book_order
book_order_lower == [i \in 1..Len(book_order) |-> Lower(book_order[i])]

skip_patterns == <<"Liturgy of the", "Proper", "Year", "Col", "Lk", "Ps", "Psalms">>

Letters == UpperLetters \cup LowerLetters

\* re.sub('^' + head + r'\s+', repl + ' ', book): head followed by at least
\* one whitespace character
ReplaceHead(book, head, repl) ==
    LET w == SkipWhile(book, Len(head) + 1, WhiteSpace)
    IN  IF StartsWith(book, head) /\ w > Len(head) + 1
        THEN repl \o " " \o From(book, w)
        ELSE book

\* normalize_book: a digit or a Roman numeral I, II, III in front, followed
\* by whitespace, becomes the digit and one space
normalize_book(book_in) ==
    LET book == Strip(book_in)
        b1 == IF Len(book) >= 1 /\ Ch(book, 1) \in Digits
              THEN ReplaceHead(book, Ch(book, 1), Ch(book, 1)) ELSE book
        b2 == ReplaceHead(b1, "I", "1")
        b3 == ReplaceHead(b2, "II", "2")
    IN  ReplaceHead(b3, "III", "3")

\* get_book_key without the text of an unlisted book in its key
get_book_key_unkeyed(book) ==
    LET hits == {i \in 1..Len(book_order) :
                    Lower(normalize_book(book)) = book_order_lower[i] \/ Lower(book) = book_order_lower[i]}
    IN  IF hits # {} THEN <<0, Min(hits) - 1>> ELSE <<1, "">>

\* get_book_key: (0, position) for a name of book_order, (1, book.lower()) otherwise
get_book_key(book) ==
    LET name == Lower(normalize_book(book))
        lower == Lower(book)
        hits == {i \in 1..Len(book_order) :
                    name = book_order_lower[i] \/ lower = book_order_lower[i]}
    IN  IF hits # {} THEN <<0, Min(hits) - 1>> ELSE <<1, Lower(book)>>

BookKeyLess(a, b) ==
    \/ a[1] < b[1]
    \/ a[1] = b[1] /\ (IF a[1] = 0 THEN a[2] < b[2] ELSE StrLess(a[2], b[2]))

\* parse_chapter_verse: re.match(r'(\d+)(?::(\d+))?', rest) on the text after
\* the book name
parse_chapter_verse(ref, book) ==
    LET rest == LStripChars(Strip(From(ref, Len(book) + 1)), {":", "."})
        e == SkipWhile(rest, 1, Digits)
        v == IF e < Len(rest) /\ Ch(rest, e) = ":"
             THEN SubSeq(rest, e + 1, SkipWhile(rest, e + 1, Digits) - 1) ELSE ""
    IN  IF e = 1 THEN <<NoChapter, NoChapter, rest>>
        ELSE <<ParseInt(Upto(rest, e - 1)), IF v = "" THEN 0 ELSE ParseInt(v), rest>>

\* the sort key of an item: (parse_chapter_verse(ref, book), date)
ItemKeyLess(a, b) ==
    \/ a[1][1] < b[1][1]
    \/ a[1][1] = b[1][1] /\ a[1][2] < b[1][2]
    \/ a[1][1] = b[1][1] /\ a[1][2] = b[1][2] /\ StrLess(a[1][3], b[1][3])
    \/ a[1] = b[1] /\ StrLess(a[2], b[2])

\* re.split(r',\s*(?=[A-Z1-3I])', readings)
RECURSIVE SplitReadings(_)
SplitReadings(s) ==
    LET hits == {p \in 1..Len(s) :
                    /\ Ch(s, p) = ","
                    /\ SkipWhile(s, p + 1, WhiteSpace) <= Len(s)
                    /\ Ch(s, SkipWhile(s, p + 1, WhiteSpace)) \in UpperLetters \cup {"1", "2", "3"}}
    IN  IF hits = {} THEN <<s>>
        ELSE <<Upto(s, Min(hits) - 1)>>
                 \o SplitReadings(From(s, SkipWhile(s, Min(hits) + 1, WhiteSpace)))

\* re.match(r'^([1-3I]*\s*[A-Za-z]+(?:\s+of\s+[A-Za-z]+)?)', ref): group(1),
\* "" when the pattern does not match
BookMatch(ref) ==
    LET PrefixChars == {"1", "2", "3", "I"}
        k  == SkipWhile(ref, 1, PrefixChars) - 1
        w  == SkipWhile(ref, k + 1, WhiteSpace)
        back == {j \in 1..k : Ch(ref, j) = "I"}
        ls == IF w <= Len(ref) /\ Ch(ref, w) \in Letters THEN w
              ELSE IF back # {} THEN Max(back)
              ELSE 0
        e  == SkipWhile(ref, ls, Letters)
        a  == SkipWhile(ref, e, WhiteSpace)
        b  == SkipWhile(ref, a + 2, WhiteSpace)
        withOf == /\ a > e /\ OccursAt(ref, "of", a)
                  /\ b > a + 2 /\ b <= Len(ref) /\ Ch(ref, b) \in Letters
    IN  IF ls = 0 THEN ""
        ELSE IF withOf THEN Upto(ref, SkipWhile(ref, b, Letters) - 1)
        ELSE Upto(ref, e - 1)

\* re.match(r'^\d+[a-z]?$', book)
IsVerseFragment(book) ==
    LET e == SkipWhile(book, 1, Digits)
    IN  e > 1 /\ (e > Len(book) \/ (e = Len(book) /\ Ch(book, e) \in LowerLetters))

\* the test that skips liturgical labels, abbreviations and verse fragments
IsSkipped(book) ==
    \/ \E i \in 1..Len(skip_patterns) : Lower(book) = Lower(skip_patterns[i])
    \/ IsVerseFragment(book)

\* the items one record adds to by_book, in order: book, ref, date
ItemsOf(entry) ==
    IF entry.readings = "" THEN <<>>
    ELSE LET refs == SplitReadings(entry.readings)
             item(k) == LET ref == Strip(refs[k])
                        IN  [book |-> Strip(BookMatch(ref)), ref |-> ref, date |-> entry.date]
             all == [k \in 1..Len(refs) |-> item(k)]
         IN  SelectSeq(all, LAMBDA x : x.ref # "" /\ x.book # "" /\ ~IsSkipped(x.book))

AllItems(entries) == Flatten([k \in 1..Len(entries) |-> ItemsOf(entries[k])])

\* sorted(by_book.keys(), key=get_book_key)
HtmlBooks(items) ==
    LET books == Distinct([k \in 1..Len(items) |-> items[k].book])
        keys == [k \in 1..Len(books) |-> get_book_key(books[k])]
    IN  SortedBy(books, [a, b \in 1..Len(books) |-> BookKeyLess(keys[a], keys[b])])

\* by_book[book] after items.sort(...)
HtmlItems(items, book) ==
    LET mine == SelectSeq(items, LAMBDA x : x.book = book)
        keys == [k \in 1..Len(mine) |-> <<parse_chapter_verse(mine[k].ref, book), mine[k].date>>]
    IN  SortedBy(mine, [a, b \in 1..Len(mine) |-> ItemKeyLess(keys[a], keys[b])])

(***************************************************************************)
(* The scripture index pages, built from up to MaxReadings records         *)
(***************************************************************************)
MaxReadings == 2

\* the citations typed into the readings field of one record: book as written, verse span
ReadingPool ==
    { << <<"Psalms", "23">> >>,
      << <<"Psalm", "23:1-6">>, <<"Lk", "2:1">> >>,
      << <<"1Samuel", "3:1-10">> >>,
      << <<"I Samuel", "3:1">>, <<"Ruth", "1:1">> >>,
      << <<"1 John", "4:7-21">> >>,
      << <<"1 John", "3:1-7">> >>,
      << <<"Tobit", "1:1">>, <<"Revelation", "1:1">> >>,
      << <<"Judith", "2:1">> >>,
      << <<"Revelation", "-">> >>,
      << <<"Psalm", "86:1-10, 16-17">>, <<"Romans", "6:1b-11">> >> }

RECURSIVE ReadingLists(_)
ReadingLists(n) ==
    IF n = 0 THEN {<<>>}
    ELSE ReadingLists(n - 1) \cup
         {Append(l, c) : l \in {x \in ReadingLists(n - 1) : Len(x) = n - 1}, c \in ReadingPool}

InitScriptureIndex ==
    /\ pc = "start"
    /\ \E l \in ReadingLists(MaxReadings) :
          index_data = [k \in 1..Len(l) |->
                           [date |-> DateOf(k), cites |-> l[k], readings |-> JoinCitations(l[k])]]
    /\ scripture_index = <<>> /\ sorted_books = <<>> /\ sorted_refs = <<>>
    /\ by_book = <<>> /\ html_books = <<>> /\ html_items = <<>>
    /\ OccIdle /\ OrdIdle /\ ScrIdle /\ TtlIdle /\ IdxIdle /\ DupIdle /\ CaseIdle /\ CmpIdle /\ GrpIdle /\ PassIdle /\ KeyIdle /\ ProcIdle /\ ChrIdle /\ HdgIdle /\ GenIdle

\* generate_scripture_index of generate_indexes.py
GenerateScriptureIndex ==
    /\ pc = "start"
    /\ scripture_index' = AllReferences(index_data)
    /\ sorted_books' = SortedBooks(scripture_index')
    /\ sorted_refs' = [n \in 1..Len(sorted_books') |-> SortedRefs(scripture_index', sorted_books'[n])]
    /\ pc' = "indexed"
    /\ UNCHANGED <<index_data, by_book, html_books, html_items, occVars, ordVars, scrVars, ttlVars, idxVars, dupVars, caseVars, cmpVars, grpVars, passVars, keyVars, procVars, chrVars, hdgVars, genVars>>

\* generate_scripture_index_html of regenerate_all_indexes.py
GenerateScriptureIndexHtml ==
    /\ pc = "indexed"
    /\ by_book' = AllItems(index_data)
    /\ html_books' = HtmlBooks(by_book')
    /\ html_items' = [n \in 1..Len(html_books') |-> HtmlItems(by_book', html_books'[n])]
    /\ pc' = "done"
    /\ UNCHANGED <<index_data, scripture_index, sorted_books, sorted_refs, occVars, ordVars, scrVars, ttlVars, idxVars, dupVars, caseVars, cmpVars, grpVars, passVars, keyVars, procVars, chrVars, hdgVars, genVars>>

NextScriptureIndex == GenerateScriptureIndex \/ GenerateScriptureIndexHtml

SpecScriptureIndex == InitScriptureIndex /\ [][NextScriptureIndex]_vars

(***************************************************************************)
(* Properties of the scripture index pages                                 *)
(***************************************************************************)
\* the citations typed into the records: book as written, verse span
TypedCitations ==
    UNION {{index_data[k].cites[c] : c \in 1..Len(index_data[k].cites)} : k \in 1..Len(index_data)}

\* the book a written name stands for: Psalms, a digit joined to the name,
\* a Roman-numeral prefix
CanonicalBook(written) ==
    IF written = "Psalms" THEN "Psalm"
    ELSE IF StartsWith(written, "III ") THEN "3 " \o From(written, 5)
    ELSE IF StartsWith(written, "II ") THEN "2 " \o From(written, 4)
    ELSE IF StartsWith(written, "I ") THEN "1 " \o From(written, 3)
    ELSE IF Len(written) >= 2 /\ Ch(written, 1) \in Digits /\ Ch(written, 2) \in Letters
         THEN Ch(written, 1) \o " " \o From(written, 2)
    ELSE written

\* position of a canonical book name in the Biblical Book Order Table, 0 when absent
TablePosition(name) ==
    LET hits == {i \in 1..Len(BOOK_ORDER) : BOOK_ORDER[i] = name}
    IN  IF hits = {} THEN 0 ELSE Min(hits)

\* the reference texts of the groups of generate_scripture_index_html
HtmlRefs == [n \in 1..Len(html_items) |-> [m \in 1..Len(html_items[n]) |-> html_items[n][m].ref]]

\* a citation keeps a group of its canonical book, and that group stands where
\* the canonical book stands among the groups of the table's books
PlacedAsCanonical(books, refs, written, span) ==
    LET canon == CanonicalBook(written)
    IN  \E n \in 1..Len(books) :
           /\ CanonicalBook(books[n]) = canon
           /\ \E m \in 1..Len(refs[n]) : EndsWith(refs[n][m], " " \o span)
           /\ \A m \in 1..Len(books) :
                 LET pos == TablePosition(CanonicalBook(books[m]))
                 IN  pos # 0 =>
                        /\ pos < TablePosition(canon) => m < n
                        /\ pos > TablePosition(canon) => m > n

\* C18: on both scripture index pages a reference written with a variant of a
\* book name ('Psalms', '1Samuel', 'I Samuel') is kept and its group is placed
\* at the position of the canonical book ('Psalm', '1 Samuel').
C18_VariantsAtCanonicalPosition ==
    \A c \in TypedCitations :
        (CanonicalBook(c[1]) # c[1] /\ TablePosition(CanonicalBook(c[1])) # 0) =>
            /\ pc \in {"indexed", "done"} => PlacedAsCanonical(sorted_books, sorted_refs, c[1], c[2])
            /\ pc = "done" => PlacedAsCanonical(html_books, HtmlRefs, c[1], c[2])

\* chapter and verse at the start of the verse span, the text after the book name
SpanKey(ref, book) ==
    LET key == parse_chapter_verse(ref, book) IN <<key[1], key[2]>>

\* the references of every group ascend by chapter and verse of their span
OrderedBySpan(books, refs) ==
    \A n \in 1..Len(books) : \A i, j \in 1..Len(refs[n]) :
        i < j => ~PairLess(SpanKey(refs[n][j], books[n]), SpanKey(refs[n][i], books[n]))

\* C19: on both scripture index pages the references of one book are in
\* ascending order of the chapter and verse that start their verse span, for
\* numbered books too, and a reference without a chapter comes last.
C19_OrderedByChapterVerse ==
    /\ pc \in {"indexed", "done"} => OrderedBySpan(sorted_books, sorted_refs)
    /\ pc = "done" => OrderedBySpan(html_books, HtmlRefs)

\* a written name that stands for no book of the table
UnknownBook(written) == TablePosition(CanonicalBook(written)) = 0

\* a name the page generator discards as a label or an abbreviation
NonBookLabel(written) == \E i \in 1..Len(skip_patterns) : Lower(written) = Lower(skip_patterns[i])

\* every citation of an unknown book has a group under its own name; the
\* groups of unknown books follow all groups of known books and ascend by text
UnknownBooksLast(books, refs, texts) ==
    /\ \A c \in TypedCitations :
          (UnknownBook(c[1]) /\ ~NonBookLabel(c[1])) =>
              \E n \in 1..Len(books) :
                  books[n] = c[1] /\ \E m \in 1..Len(refs[n]) : refs[n][m] = c[1] \o " " \o c[2]
    /\ \A i, j \in 1..Len(books) :
          /\ (UnknownBook(books[i]) /\ ~UnknownBook(books[j])) => j < i
          /\ (UnknownBook(books[i]) /\ UnknownBook(books[j]) /\ i < j) =>
                 ~StrLess(texts[j], texts[i])

\* C20: on both scripture index pages a book that is not in the Biblical Book
\* Order Table, and is no variant of one of its entries, keeps its group; the
\* groups of such books come after the groups of all known books, ordered among
\* themselves by their text (generate_scripture_index_html: in lower case).
C20_UnknownBooksKept ==
    /\ pc \in {"indexed", "done"} => UnknownBooksLast(sorted_books, sorted_refs, sorted_books)
    /\ pc = "done" =>
          UnknownBooksLast(html_books, HtmlRefs, [n \in 1..Len(html_books) |-> Lower(html_books[n])])

\* Tobit arrives before Revelation and before Judith; both pages list Revelation, Judith, Tobit
C20_Witness ==
    /\ pc = "done"
    /\ Len(index_data) = 2
    /\ index_data[1].readings = "Tobit 1:1, Revelation 1:1"
    /\ index_data[2].readings = "Judith 2:1"
    /\ sorted_books = <<"Revelation", "Judith", "Tobit">>
    /\ html_books = <<"Revelation", "Judith", "Tobit">>
    /\ sorted_refs[3] = <<"Tobit 1:1">>
    /\ HtmlRefs[3] = <<"Tobit 1:1">>

(***************************************************************************)
(* Fallbacks: one record whose occasion or readings the rules do not cover *)
(***************************************************************************)
\* occasion texts that no rule of normalize_occasion covers
UnmatchedOccasions ==
    {"Thanksgiving Day", "Feast of All Saints", "Harvest Festival", "Proper", "Year D", "???"}

FallbackOccasions == {"", "Easter Day", "Proper 5, Year A"} \cup UnmatchedOccasions

\* reading texts without a book name followed by a verse span
UnparseableReadings == {"see bulletin", "TBD", "12:1-3", "Genesis", "genesis"}

FallbackReadings == {"", "Genesis 1:1"} \cup UnparseableReadings

InitFallback ==
    /\ pc = "start"
    /\ occasion \in FallbackOccasions
    /\ readings \in FallbackReadings
    /\ index_data = <<[date |-> DateOf(1), cites |-> <<>>, readings |-> readings]>>
    /\ normalized = "" /\ renormalized = "" /\ lect_year = "None"
    /\ citations = <<>> /\ references = <<>>
    /\ scripture_index = <<>> /\ sorted_books = <<>> /\ sorted_refs = <<>>
    /\ by_book = <<>> /\ html_books = <<>> /\ html_items = <<>>
    /\ OrdIdle /\ TtlIdle /\ IdxIdle /\ DupIdle /\ CaseIdle /\ CmpIdle /\ GrpIdle /\ PassIdle /\ KeyIdle /\ ProcIdle /\ ChrIdle /\ HdgIdle /\ GenIdle

\* normalized = normalize_occasion(occ)
KeyOccasion ==
    /\ pc = "start"
    /\ normalized' = normalize_occasion(occasion)
    /\ pc' = "keyed"
    /\ UNCHANGED <<occasion, renormalized, lect_year, ordVars, scrVars, ttlVars, idxVars, dupVars, caseVars, cmpVars, grpVars, sixVars, passVars, keyVars, procVars, chrVars, hdgVars, genVars>>

\* sorted(year_data.keys(), key=get_occasion_sort_key), the key of this record
SortKeyOccasion ==
    /\ pc = "keyed"
    /\ sort_a' = normalized
    /\ key_a' = get_occasion_sort_key(normalized)
    /\ pc' = "ranked"
    /\ UNCHANGED <<sort_b, key_b, occVars, scrVars, ttlVars, idxVars, dupVars, caseVars, cmpVars, grpVars, sixVars, passVars, keyVars, procVars, chrVars, hdgVars, genVars>>

\* parse_scripture_references(med['readings'])
ParseReadings ==
    /\ pc = "ranked"
    /\ references' = parse_scripture_references(readings)
    /\ pc' = "parsed"
    /\ UNCHANGED <<citations, readings, occVars, ordVars, ttlVars, idxVars, dupVars, caseVars, cmpVars, grpVars, sixVars, passVars, keyVars, procVars, chrVars, hdgVars, genVars>>

\* the by_book loop of generate_scripture_index_html over the record
ParseReadingsHtml ==
    /\ pc = "parsed"
    /\ by_book' = AllItems(index_data)
    /\ html_books' = HtmlBooks(by_book')
    /\ html_items' = [n \in 1..Len(html_books') |-> HtmlItems(by_book', html_books'[n])]
    /\ pc' = "done"
    /\ UNCHANGED <<index_data, scripture_index, sorted_books, sorted_refs, occVars, ordVars, scrVars, ttlVars, idxVars, dupVars, caseVars, cmpVars, grpVars, passVars, keyVars, procVars, chrVars, hdgVars, genVars>>

NextFallback == KeyOccasion \/ SortKeyOccasion \/ ParseReadings \/ ParseReadingsHtml

SpecFallback == InitFallback /\ [][NextFallback]_vars

\* C11: the occasion key and the references are always produced; empty
\* occasion text gives the empty key and the sentinel index, occasion text
\* that matches no rule is its own key with the sentinel index, and empty or
\* unparseable readings give no reference in either parser.
C11_TotalWithFallback ==
    /\ pc \in {"keyed", "ranked", "parsed", "done"} =>
          /\ occasion = "" => normalized = ""
          /\ occasion \in UnmatchedOccasions => normalized = occasion
    /\ (pc \in {"ranked", "parsed", "done"} /\ occasion \in {""} \cup UnmatchedOccasions) =>
          key_a = NotFound
    /\ (pc \in {"parsed", "done"} /\ readings \in {""} \cup UnparseableReadings) =>
          references = <<>>
    /\ (pc = "done" /\ readings \in {""} \cup UnparseableReadings) =>
          html_books = <<>>

(***************************************************************************)
(* The lectionary pass of generate_lectionary_year_html, run twice over    *)
(* the same records                                                        *)
(***************************************************************************)
MaxArrivals == 2

LectionaryYears == <<"A", "B", "C">>

\* the records of the pass: date, occasion, occasion_full
PassPool ==
    { [date |-> "2019-11-28", occasion |-> "Thanksgiving Day, Year A", occasion_full |-> "Thanksgiving Day, Year A"],
      [date |-> "2019-11-03", occasion |-> "Feast of All Saints, Year A", occasion_full |-> "Feast of All Saints, Year A"],
      [date |-> "2020-04-12", occasion |-> "Easter Day, Year A", occasion_full |-> "Easter Day, Year A"],
      [date |-> "2020-06-07", occasion |-> "Proper 5, Year A", occasion_full |-> "Proper 5, Year A"],
      [date |-> "2020-11-26", occasion |-> "Thanksgiving Day", occasion_full |-> "Thanksgiving Day, Year A"],
      [date |-> "2019-11-28", occasion |-> "Harvest Festival", occasion_full |-> "Harvest Festival, Year B"] }

\* the orders in which a set of records can arrive
Arrivals(S) ==
    {l \in [1..Cardinality(S) -> S] : \A i, j \in 1..Cardinality(S) : i # j => l[i] # l[j]}

\* the records of one lectionary year with their canonical key, in arrival order
YearEntries(data, year) ==
    LET keyed == [k \in 1..Len(data) |->
                     [year |-> get_lectionary_year(data[k].occasion_full),
                      key |-> normalize_occasion(data[k].occasion),
                      entry |-> data[k]]]
    IN  SelectSeq(keyed, LAMBDA x : x.year = year)

\* sorted(year_data.keys(), key=get_occasion_sort_key)
SortedOccasions(members) ==
    LET keys == Distinct([k \in 1..Len(members) |-> members[k].key])
        rank == [k \in 1..Len(keys) |-> get_occasion_sort_key(keys[k])]
    IN  SortedBy(keys, [a, b \in 1..Len(keys) |-> rank[a] < rank[b]])

\* sorted(entries, key=lambda x: x['date'] or '', reverse=True)
SortedEntries(members, key) ==
    LET mine == SelectSeq(members, LAMBDA x : x.key = key)
        entries == [k \in 1..Len(mine) |-> mine[k].entry]
    IN  SortedBy(entries, [a, b \in 1..Len(entries) |-> StrLess(entries[b].date, entries[a].date)])

\* by_year after the loop over all_data
ByYear(data) == [y \in 1..Len(LectionaryYears) |-> YearEntries(data, LectionaryYears[y])]

\* the occasion groups of every lectionary year in page order
LectionaryPages(grouped) ==
    [y \in 1..Len(LectionaryYears) |->
        LET sorted_occasions == SortedOccasions(grouped[y])
        IN  [n \in 1..Len(sorted_occasions) |->
                [key |-> sorted_occasions[n], entries |-> SortedEntries(grouped[y], sorted_occasions[n])]]]

InitPass ==
    /\ pc = "start"
    /\ \E S \in SUBSET PassPool :
          /\ Cardinality(S) <= MaxArrivals
          /\ arrival_a \in Arrivals(S)
          /\ arrival_b \in Arrivals(S)
    /\ by_year_a = <<>> /\ pages_a = <<>> /\ by_year_b = <<>> /\ pages_b = <<>>
    /\ OccIdle /\ OrdIdle /\ ScrIdle /\ TtlIdle /\ IdxIdle /\ DupIdle /\ CaseIdle /\ CmpIdle /\ GrpIdle /\ SixIdle /\ KeyIdle /\ ProcIdle /\ ChrIdle /\ HdgIdle /\ GenIdle

\* the first run of generate_lectionary_year_html
GenerateLectionaryYearHtml ==
    /\ pc = "start"
    /\ by_year_a' = ByYear(arrival_a)
    /\ pages_a' = LectionaryPages(by_year_a')
    /\ pc' = "first_run"
    /\ UNCHANGED <<arrival_a, arrival_b, by_year_b, pages_b, occVars, ordVars, scrVars, ttlVars, idxVars, dupVars, caseVars, cmpVars, grpVars, sixVars, keyVars, procVars, chrVars, hdgVars, genVars>>

\* the second run
GenerateLectionaryYearHtmlAgain ==
    /\ pc = "first_run"
    /\ by_year_b' = ByYear(arrival_b)
    /\ pages_b' = LectionaryPages(by_year_b')
    /\ pc' = "second_run"
    /\ UNCHANGED <<arrival_a, arrival_b, by_year_a, pages_a, occVars, ordVars, scrVars, ttlVars, idxVars, dupVars, caseVars, cmpVars, grpVars, sixVars, keyVars, procVars, chrVars, hdgVars, genVars>>

NextPass == GenerateLectionaryYearHtml \/ GenerateLectionaryYearHtmlAgain

SpecPass == InitPass /\ [][NextPass]_vars

\* the canonical keys of the groups of one year
KeysOf(groups) == {groups[n].key : n \in 1..Len(groups)}

\* the groups of one year as sets of records
GroupingsOf(groups) ==
    {<<groups[n].key, {groups[n].entries[m] : m \in 1..Len(groups[n].entries)}>> : n \in 1..Len(groups)}

\* position of a key in the Liturgical Order Table, 0 when absent
TableRank(k) ==
    LET at == {i \in 1..Len(get_liturgical_order) : get_liturgical_order[i] = k}
    IN  IF at = {} THEN 0 ELSE Min(at)

\* the keys of the groups that the order table ranks, in page order
RankedOrder(groups) ==
    LET keys == [n \in 1..Len(groups) |-> groups[n].key]
    IN  SelectSeq(keys, LAMBDA k : TableRank(k) # 0)

\* C12 as stated: two runs over the same records give the same keys, the same
\* order of occasion groups in each lectionary year and the same groupings,
\* whatever order the records arrive in.
C12_Deterministic ==
    pc = "second_run" =>
        \A y \in 1..Len(LectionaryYears) :
            /\ KeysOf(pages_a[y]) = KeysOf(pages_b[y])
            /\ [n \in 1..Len(pages_a[y]) |-> pages_a[y][n].key]
                   = [n \in 1..Len(pages_b[y]) |-> pages_b[y][n].key]
            /\ GroupingsOf(pages_a[y]) = GroupingsOf(pages_b[y])

\* C12 amended: two runs over the same records give the same keys and the
\* same groupings whatever the arrival order, and the same order of the groups
\* whose key is in the order table, which precede all other groups; when the
\* records arrive in the same order both times the two runs are identical.
C12_DeterministicUpToArrival ==
    pc = "second_run" =>
        /\ \A y \in 1..Len(LectionaryYears) :
              /\ KeysOf(pages_a[y]) = KeysOf(pages_b[y])
              /\ GroupingsOf(pages_a[y]) = GroupingsOf(pages_b[y])
              /\ RankedOrder(pages_a[y]) = RankedOrder(pages_b[y])
              /\ \A i, j \in 1..Len(pages_a[y]) :
                    LET ri == TableRank(pages_a[y][i].key)
                        rj == TableRank(pages_a[y][j].key)
                    IN  (ri # 0 /\ (rj = 0 \/ ri < rj)) => i < j
        /\ arrival_a = arrival_b => pages_a = pages_b

\* two unranked occasions of Year A arrive in opposite orders, next to none
C12_Witness ==
    /\ pc = "second_run"
    /\ Len(arrival_a) = 2
    /\ arrival_a[1] = arrival_b[2] /\ arrival_a[2] = arrival_b[1]
    /\ arrival_a[1].occasion = "Thanksgiving Day, Year A"
    /\ arrival_a[2].occasion = "Feast of All Saints, Year A"
    /\ [n \in 1..2 |-> pages_a[1][n].key] = <<"Thanksgiving Day", "Feast of All Saints">>
    /\ [n \in 1..2 |-> pages_b[1][n].key] = <<"Feast of All Saints", "Thanksgiving Day">>

(***************************************************************************)
(* A grouping key handed to the grouping-key functions again               *)
(***************************************************************************)
\* trailing punctuation as typed: runs, spaced runs and a spaced ellipsis
SpacedRuns == {"", "!", "...", "?!", " .", " !", ". .", ". . .", ". ", ": ;", " ,  ", "  "}

RegroupSpellings ==
    {l \o c \o r : l \in {"", " "}, c \in UNION {Casings(base) : base \in TitleBases}, r \in SpacedRuns}

InitRegroup ==
    /\ pc = "start"
    /\ spelling \in RegroupSpellings
    /\ group_key = "" /\ group_rekey = "" /\ near_key = "" /\ near_rekey = ""
    /\ OccIdle /\ OrdIdle /\ ScrIdle /\ TtlIdle /\ IdxIdle /\ DupIdle /\ CaseIdle /\ CmpIdle /\ GrpIdle /\ SixIdle /\ PassIdle /\ ProcIdle /\ ChrIdle /\ HdgIdle /\ GenIdle

\* generate_title_index: the key of the title, and the key of that key
RegroupTitle ==
    /\ pc = "start"
    /\ group_key' = normalize_title_for_grouping(spelling)
    /\ group_rekey' = normalize_title_for_grouping(group_key')
    /\ pc' = "grouped"
    /\ UNCHANGED <<spelling, near_key, near_rekey, occVars, ordVars, scrVars, ttlVars, idxVars, dupVars, caseVars, cmpVars, grpVars, sixVars, passVars, procVars, chrVars, hdgVars, genVars>>

\* find_near_match_titles: the same with normalize_for_grouping
RegroupNearMatch ==
    /\ pc = "grouped"
    /\ near_key' = normalize_for_grouping(spelling)
    /\ near_rekey' = normalize_for_grouping(near_key')
    /\ pc' = "near_matched"
    /\ UNCHANGED <<spelling, group_key, group_rekey, occVars, ordVars, scrVars, ttlVars, idxVars, dupVars, caseVars, cmpVars, grpVars, sixVars, passVars, procVars, chrVars, hdgVars, genVars>>

NextRegroup == RegroupTitle \/ RegroupNearMatch

SpecRegroup == InitRegroup /\ [][NextRegroup]_vars

\* a key that ends neither with terminal punctuation nor with whitespace
CleanEnd(key) ==
    key = "" \/ Ch(key, Len(key)) \notin TerminalPunctuation \cup WhiteSpace

\* C26: the grouping key of a title never ends with a terminal punctuation
\* character or with whitespace, and the grouping key of a grouping key is the
\* key itself, in generate_indexes.py and in fix_titles.py.
C26_GroupingKeyIdempotent ==
    /\ pc \in {"grouped", "near_matched"} => (CleanEnd(group_key) /\ group_rekey = group_key)
    /\ pc = "near_matched" => (CleanEnd(near_key) /\ near_rekey = near_key)

(***************************************************************************)
(* The empty canonical key                                                 *)
(***************************************************************************)
\* the occasion text without its noise: year marker, backslash, whitespace,
\* quotes and editorial note
WithoutNoise(occ) == Strip(RemoveNote(CleanOccasion(occ)))

\* C27: normalize_occasion returns the empty key only for text that is empty
\* once its noise is removed; a text that names an occasion, a feast name
\* alone included, gets a non-empty key.
C27_EmptyKeyOnlyForEmptyText ==
    (pc \in {"normalized", "renormalized"} /\ normalized = "") => WithoutNoise(occasion) = ""

(***************************************************************************)
(* Verse continuations on the scripture index page                         *)
(***************************************************************************)
\* the items that generate_scripture_index_html recorded for record k
ItemsOfRecord(k) == SelectSeq(by_book, LAMBDA x : x.date = index_data[k].date)

\* a citation whose book is written as an entry of book_order
WrittenAsListed(c) == \E i \in 1..Len(book_order) : book_order[i] = c[1]

\* C23: for a reading list of listed books, generate_scripture_index_html
\* records one reference per book citation, and each reference holds the whole
\* verse text of its citation, comma continuations included.
C23_VerseTextUpToNextBook ==
    pc = "done" =>
        \A k \in 1..Len(index_data) :
            (\A c \in 1..Len(index_data[k].cites) : WrittenAsListed(index_data[k].cites[c])) =>
                /\ Len(ItemsOfRecord(k)) = Len(index_data[k].cites)
                /\ \A c \in 1..Len(index_data[k].cites) :
                      ItemsOfRecord(k)[c].ref = index_data[k].cites[c][1] \o " " \o index_data[k].cites[c][2]

(***************************************************************************)
(* process_meditations_complete.py: main and process_files                 *)
(***************************************************************************)
MaxTxtFiles == 3

\* parse_filename: re.match(r'(\d{4}-\d{2}-\d{2})_', filename), "None" without a match
parse_filename(filename) ==
    LET shape == /\ Len(filename) >= 11
                 /\ \A i \in {1, 2, 3, 4, 6, 7, 9, 10} : Ch(filename, i) \in Digits
                 /\ Ch(filename, 5) = "-" /\ Ch(filename, 8) = "-" /\ Ch(filename, 11) = "_"
    IN  IF shape THEN Upto(filename, 10) ELSE "None"

\* the .txt files of the input folder: name and the title parse_meditation_file
\* finds, "" when it returns None
TxtPool ==
    { [name |-> "2020-01-05_a.txt", title |-> "Alpha"],
      [name |-> "2020-01-05_b.txt", title |-> "Beta"],
      [name |-> "2020-01-12_c.txt", title |-> "Gamma"],
      [name |-> "2020-01-19_d.txt", title |-> ""],
      [name |-> "notes.txt", title |-> "Notes"] }

\* sorted(input_path.glob('*.txt'))
SortedFiles(S) ==
    LET any == CHOOSE l \in [1..Cardinality(S) -> S] : \A i, j \in 1..Cardinality(S) : i # j => l[i] # l[j]
    IN  SortedBy(any, [a, b \in 1..Len(any) |-> StrLess(any[a].name, any[b].name)])

\* the meditation pages of the website before the run
PagePool == { [date |-> "2020-01-12", title |-> "Gamma"], [date |-> "2019-12-29", title |-> "Omega"] }

\* meditations-data.json before the run: an entry per page
DataOf(P) ==
    LET any == CHOOSE l \in [1..Cardinality(P) -> P] : \A i, j \in 1..Cardinality(P) : i # j => l[i] # l[j]
    IN  SortedBy(any, [a, b \in 1..Len(any) |-> StrLess(any[a].date, any[b].date)])

\* save_meditations_data: sorted(data, key=lambda x: x['date'])
SortedData(entries) ==
    SortedBy(entries, [a, b \in 1..Len(entries) |-> StrLess(entries[a].date, entries[b].date)])

InitProcess ==
    /\ pc = "start"
    /\ \E S \in SUBSET TxtPool : Cardinality(S) <= MaxTxtFiles /\ txt_files = SortedFiles(S)
    /\ dry_run \in BOOLEAN
    /\ \E P \in SUBSET PagePool :
          site = [pages |-> P, data |-> DataOf(P), index |-> {q.date : q \in P}]
    /\ site_before = site
    /\ existing_dates = {} /\ loaded_data = <<>> /\ existing_data_dates = {}
    /\ processed = <<>> /\ file_index = 0
    /\ OccIdle /\ OrdIdle /\ ScrIdle /\ TtlIdle /\ IdxIdle /\ DupIdle /\ CaseIdle /\ CmpIdle /\ GrpIdle /\ SixIdle /\ PassIdle /\ KeyIdle /\ ChrIdle /\ HdgIdle /\ GenIdle

\* process_files up to its loop: get_existing_dates, load_meditations_data
LoadWebsite ==
    /\ pc = "start"
    /\ existing_dates' = {p.date : p \in site.pages}
    /\ loaded_data' = site.data
    /\ existing_data_dates' = {site.data[k].date : k \in 1..Len(site.data)}
    /\ pc' = "files"
    /\ UNCHANGED <<txt_files, dry_run, site, site_before, processed, file_index, occVars, ordVars, scrVars, ttlVars, idxVars, dupVars, caseVars, cmpVars, grpVars, sixVars, passVars, keyVars, chrVars, hdgVars, genVars>>

\* one turn of the loop of process_files
ProcessFile ==
    /\ pc = "files"
    /\ file_index < Len(txt_files)
    /\ file_index' = file_index + 1
    /\ LET file == txt_files[file_index + 1]
           date_str == parse_filename(file.name)
           entry == [date |-> date_str, title |-> file.title]
       IN  IF date_str = "None" \/ date_str \in existing_dates \/ file.title = ""
           THEN UNCHANGED <<site, processed, loaded_data, existing_data_dates, chrVars, hdgVars, genVars>>
           ELSE /\ site' = [site EXCEPT !.pages = {q \in site.pages : q.date # date_str} \cup {entry}]
                /\ processed' = Append(processed, entry)
                /\ IF date_str \notin existing_data_dates
                   THEN /\ loaded_data' = Append(loaded_data, entry)
                        /\ existing_data_dates' = existing_data_dates \cup {date_str}
                   ELSE UNCHANGED <<loaded_data, existing_data_dates, chrVars, hdgVars, genVars>>
    /\ UNCHANGED <<pc, txt_files, dry_run, site_before, existing_dates, occVars, ordVars, scrVars, ttlVars, idxVars, dupVars, caseVars, cmpVars, grpVars, sixVars, passVars, keyVars, chrVars, hdgVars, genVars>>

\* main after process_files: nothing processed, dry run, or save and regenerate
FinishMain ==
    /\ pc = "files"
    /\ file_index = Len(txt_files)
    /\ IF processed = <<>> \/ dry_run
       THEN UNCHANGED site
       ELSE site' = [site EXCEPT !.data = SortedData(loaded_data),
                                 !.index = {loaded_data[k].date : k \in 1..Len(loaded_data)}]
    /\ pc' = "exit"
    /\ UNCHANGED <<txt_files, dry_run, site_before, existing_dates, loaded_data, existing_data_dates, processed, file_index, occVars, ordVars, scrVars, ttlVars, idxVars, dupVars, caseVars, cmpVars, grpVars, sixVars, passVars, keyVars, chrVars, hdgVars, genVars>>

NextProcess == LoadWebsite \/ ProcessFile \/ FinishMain

SpecProcess == InitProcess /\ [][NextProcess]_vars

\* C22: a run with --dry-run leaves the website directory as it was: the same
\* meditation pages with the same content, the same meditations-data.json,
\* the same index pages.
C22_DryRunChangesNothing ==
    dry_run => site = site_before

\* the title of the page of a date, the set of titles of its data entries
PageTitles(d) == {q.title : q \in {x \in site.pages : x.date = d}}
DataTitles(d) == {loaded_data[k].title : k \in {i \in 1..Len(loaded_data) : loaded_data[i].date = d}}

\* C30: when process_files returns, the data holds at most one entry per
\* date, every page that existed before the run is as it was, and for every
\* date processed in the run the data entry has the title of the page written.
C30_DataDescribesPages ==
    (pc = "files" /\ file_index = Len(txt_files)) =>
        /\ \A i, j \in 1..Len(loaded_data) : loaded_data[i].date = loaded_data[j].date => i = j
        /\ site_before.pages \subseteq site.pages
        /\ \A k \in 1..Len(processed) : DataTitles(processed[k].date) = PageTitles(processed[k].date)

(***************************************************************************)
(* add_missing_to_chrono.py: main                                          *)
(***************************************************************************)
MaxFiles == 4

\* datetime.strptime(date_str, '%Y-%m-%d') of a stem that passed
\* re.match(r'\d{4}-\d{2}-\d{2}', stem): it raises ValueError when text
\* remains after the day or when the calendar has no such day
DaysInMonth(y, mo) ==
    IF mo \in {4, 6, 9, 11} THEN 30
    ELSE IF mo # 2 THEN 31
    ELSE IF (y % 4 = 0 /\ y % 100 # 0) \/ y % 400 = 0 THEN 29 ELSE 28

strptime_ok(date_str) ==
    /\ Len(date_str) = 10
    /\ LET y == ParseInt(SubSeq(date_str, 1, 4))
           mo == ParseInt(SubSeq(date_str, 6, 7))
           d == ParseInt(SubSeq(date_str, 9, 10))
       IN  y >= 1 /\ mo \in 1..12 /\ d \in 1..DaysInMonth(y, mo)

\* int(date[:4])
YearOf(date) == ParseInt(Upto(date, 4))

\* sorted(..., reverse=True) of a set of date strings
SortedDesc(S) ==
    LET any == CHOOSE l \in [1..Cardinality(S) -> S] : \A i, j \in 1..Cardinality(S) : i # j => l[i] # l[j]
    IN  SortedBy(any, [a, b \in 1..Len(any) |-> StrLess(any[b], any[a])])

Reversed(seq) == [k \in 1..Len(seq) |-> seq[Len(seq) + 1 - k]]

InsertAt(seq, pos, x) == SubSeq(seq, 1, pos - 1) \o <<x>> \o SubSeq(seq, pos, Len(seq))

\* the dates of all links of the page
chrono_dates(page) == UNION {{page[k].items[i] : i \in 1..Len(page[k].items)} : k \in 1..Len(page)}

\* find_year_section: the first heading with the year, 0 for (None, None)
find_year_section(page, year) ==
    IF \E k \in 1..Len(page) : page[k].year = year
    THEN CHOOSE k \in 1..Len(page) : page[k].year = year /\ \A j \in 1..(k - 1) : page[j].year # year
    ELSE 0

\* create_year_section: before the first heading of a smaller year, else at the end
create_year_section(page, year) ==
    LET smaller == {k \in 1..Len(page) : page[k].year < year}
        pos == IF smaller = {} THEN Len(page) + 1 ELSE CHOOSE k \in smaller : \A j \in smaller : k <= j
    IN  InsertAt(page, pos, [year |-> year, items |-> <<>>])

\* an insertion that always puts the entry after the last one
InsertPosition_at_end(items, date) == Len(items) + 1

\* the place of a new entry in the list of its year: before the entry that
\* comes first in existing_in_section (kept sorted, latest first) among those
\* with a smaller date, else after the last entry
InsertPosition(items, date) ==
    LET existing_in_section == SortedBy(items, [a, b \in 1..Len(items) |-> StrLess(items[b], items[a])])
        later == {k \in 1..Len(items) : StrLess(existing_in_section[k], date)}
    IN  IF later = {} THEN Len(items) + 1
        ELSE LET first == CHOOSE k \in later : \A j \in later : k <= j
             IN  CHOOSE i \in 1..Len(items) : items[i] = existing_in_section[first]

\* the meditation pages of the website, one with a day the calendar lacks
StemPool == {"2011-12-25", "2012-01-08", "2012-01-15", "2012-03-04", "2013-02-10", "2012-02-30"}

\* chronological.html as the generators write it: a section per year, latest
\* year first; the entries of a year latest first, or in another order when
\* the page was edited by hand
PageOf(listed, descending) ==
    LET years == SortedDesc({Upto(d, 4) : d \in listed})
    IN  [k \in 1..Len(years) |->
            LET of_year == SortedDesc({d \in listed : Upto(d, 4) = years[k]})
            IN  [year |-> ParseInt(years[k]),
                 items |-> IF descending THEN of_year ELSE Reversed(of_year)]]

InitChrono ==
    /\ pc = "start"
    /\ file_dates \in {S \in SUBSET StemPool : Cardinality(S) <= MaxFiles}
    /\ \E listed \in SUBSET {d \in file_dates : strptime_ok(d)} : \E descending \in BOOLEAN :
          chrono_file = PageOf(listed, descending)
    /\ dry_run_chrono \in BOOLEAN
    /\ soup = <<>> /\ missing = <<>> /\ added = 0 /\ run_no = 1 /\ rewritten = FALSE
    /\ OccIdle /\ OrdIdle /\ ScrIdle /\ TtlIdle /\ IdxIdle /\ DupIdle /\ CaseIdle /\ CmpIdle /\ GrpIdle /\ SixIdle /\ PassIdle /\ KeyIdle /\ ProcIdle /\ HdgIdle /\ GenIdle

\* main up to the loop: read the page, find the missing dates, return when
\* there are none or on a dry run
FindMissing ==
    /\ pc = "start"
    /\ soup' = chrono_file
    /\ missing' = SortedDesc(file_dates \ chrono_dates(chrono_file))
    /\ added' = 0
    /\ rewritten' = FALSE
    /\ pc' = IF missing' = <<>> \/ dry_run_chrono THEN "exit" ELSE "adding"
    /\ UNCHANGED <<file_dates, chrono_file, run_no, dry_run_chrono, occVars, ordVars, scrVars, ttlVars, idxVars, dupVars, caseVars, cmpVars, grpVars, sixVars, passVars, keyVars, procVars, hdgVars, genVars>>

\* one turn of the inner loop: the section of the year is found or created,
\* the entry is built (format_date_display may raise) and inserted
AddEntry ==
    /\ pc = "adding"
    /\ missing # <<>>
    /\ LET date == Head(missing)
           year == YearOf(date)
           page == IF find_year_section(soup, year) = 0 THEN create_year_section(soup, year) ELSE soup
           ul == find_year_section(page, year)
       IN  IF strptime_ok(date)
           THEN /\ soup' = [page EXCEPT ![ul].items = InsertAt(@, InsertPosition(@, date), date)]
                /\ missing' = Tail(missing)
                /\ added' = added + 1
                /\ pc' = pc
           ELSE /\ soup' = page
                /\ pc' = "raised"
                /\ UNCHANGED <<missing, added, hdgVars, genVars>>
    /\ UNCHANGED <<file_dates, chrono_file, run_no, rewritten, dry_run_chrono, occVars, ordVars, scrVars, ttlVars, idxVars, dupVars, caseVars, cmpVars, grpVars, sixVars, passVars, keyVars, procVars, hdgVars, genVars>>

\* after the loop: backup and write when entries were added
SaveChrono ==
    /\ pc = "adding"
    /\ missing = <<>>
    /\ IF added > 0
       THEN chrono_file' = soup /\ rewritten' = TRUE
       ELSE UNCHANGED <<chrono_file, rewritten, hdgVars, genVars>>
    /\ pc' = "exit"
    /\ UNCHANGED <<file_dates, soup, missing, added, run_no, dry_run_chrono, occVars, ordVars, scrVars, ttlVars, idxVars, dupVars, caseVars, cmpVars, grpVars, sixVars, passVars, keyVars, procVars, hdgVars, genVars>>

\* the script is run again at once with the same arguments
RunAgain ==
    /\ pc \in {"exit", "raised"}
    /\ run_no = 1
    /\ run_no' = 2
    /\ pc' = "start"
    /\ UNCHANGED <<file_dates, chrono_file, soup, missing, added, rewritten, dry_run_chrono, occVars, ordVars, scrVars, ttlVars, idxVars, dupVars, caseVars, cmpVars, grpVars, sixVars, passVars, keyVars, procVars, hdgVars, genVars>>

NextChrono == FindMissing \/ AddEntry \/ SaveChrono \/ RunAgain

SpecChrono == InitChrono /\ [][NextChrono]_vars

Descending(items) == \A i, j \in 1..Len(items) : i < j => StrLess(items[j], items[i])

\* the list of a year in the page on disk, empty without a section
ListBefore(year) ==
    IF find_year_section(chrono_file, year) = 0 THEN <<>>
    ELSE chrono_file[find_year_section(chrono_file, year)].items

\* C24: a year's list that was in descending date order before the run is in
\* descending date order after every insertion of a missing entry.
C24_ReverseChronologicalKept ==
    pc \in {"adding", "raised", "exit"} =>
        \A k \in 1..Len(soup) : Descending(ListBefore(soup[k].year)) => Descending(soup[k].items)

\* two entries were inserted into a list that had two: one between them, one
\* at an end
C24_Witness ==
    /\ pc = "adding" /\ added >= 2
    /\ \E k \in 1..Len(soup) :
          /\ Len(ListBefore(soup[k].year)) >= 1
          /\ Descending(ListBefore(soup[k].year))
          /\ Len(soup[k].items) >= Len(ListBefore(soup[k].year)) + 2
          /\ soup[k].items[1] \in chrono_dates(chrono_file)
          /\ soup[k].items[2] \notin chrono_dates(chrono_file)

\* C25: after a run without --dry-run every dated meditation file is linked
\* from chronological.html, and the immediate second run finds nothing
\* missing, adds nothing and does not write the page.
C25_Converges ==
    ~dry_run_chrono =>
        /\ (run_no = 1 /\ pc \in {"exit", "raised"}) => file_dates \subseteq chrono_dates(chrono_file)
        /\ (run_no = 2 /\ pc # "start") => (pc = "exit" /\ missing = <<>> /\ added = 0 /\ ~rewritten)

\* the same for websites whose dated files all name a day of the calendar
ConvergesOnCalendarDates ==
    (~dry_run_chrono /\ \A d \in file_dates : strptime_ok(d)) =>
        /\ (run_no = 1 /\ pc \in {"exit", "raised"}) => file_dates \subseteq chrono_dates(chrono_file)
        /\ (run_no = 2 /\ pc # "start") => (pc = "exit" /\ missing = <<>> /\ added = 0 /\ ~rewritten)

(***************************************************************************)
(* generate_lectionary_year_html: heading and readings line of a group     *)
(***************************************************************************)
MaxMembers == 2

\* escape_html
escape_html(text) ==
    Replace(Replace(Replace(Replace(text, "&", "&amp;"), "<", "&lt;"), ">", "&gt;"), "\"", "&quot;")

\* clean_display_name
clean_display_name(name_in) ==
    LET a == Strip(RemoveNote(name_in))
        b == Strip(RStripChars(a, {"\\"}))
        c == Strip(TruncateAt(b, "The Baptism of Our Lord"))
        d == IF Contains(c, "Advent") THEN Strip(TruncateAt(c, "Christmas Eve")) ELSE c
        e == IF Contains(d, "All Saints") THEN "All Saints" ELSE d
        f == IF StartsWith(e, "Christmas Day") THEN "Christmas Day" ELSE e
        g == IF StartsWith(f, "Easter Day") THEN "Easter Day" ELSE f
    IN  IF Contains(g, "Presentation") THEN "Fourth Sunday after the Epiphany" ELSE g

\* the results max(names, key=len) can have when names is built from a set:
\* the first of the longest in the iteration order of the set, which is the
\* order of the string hashes and differs from process to process
Longest(names) == {x \in names : \A y \in names : Len(y) <= Len(x)}

\* the headings the code can show for a group
OccasionDisplays(normalized_occasion, names) ==
    IF StartsWith(normalized_occasion, "Proper ") /\ ProperMatch(normalized_occasion) = 1
    THEN {escape_html("Ordinary Time " \o EnDash \o " Proper "
                      \o NatToStr(ParseInt(ProperDigits(normalized_occasion, 1))))}
    ELSE IF names = {} THEN {escape_html(normalized_occasion)}
    ELSE {escape_html(x) : x \in Longest({clean_display_name(n) : n \in names})}

\* the readings lines the code can show for a group
ReadingsDisplays(texts) ==
    IF texts = {} THEN {""} ELSE {escape_html(x) : x \in Longest(texts)}

GroupOccasions ==
    {"Twenty First Sunday after Pentecost", "Twenty-First Sunday after Pentecost",
     "Twenty-First Sunday after Pentecost (Note: BCP)", "Proper 26",
     "Twenty-Third Sunday after Pentecost Proper 26"}

GroupReadings == {"", "Psalm 23", "Psalm 23, John 10:1-10", "Psalm 23; John 10:1-10"}

\* the records of one year that normalize_occasion gives one key
InitHeading ==
    /\ pc = "start"
    /\ \E n \in 1..MaxMembers : occasion_entries \in [1..n -> [occasion : GroupOccasions, readings : GroupReadings]]
    /\ \A i, j \in 1..Len(occasion_entries) :
          normalize_occasion(occasion_entries[i].occasion) = normalize_occasion(occasion_entries[j].occasion)
    /\ display_names = {} /\ readings_set = {}
    /\ occasion_display_a = "" /\ readings_display_a = ""
    /\ occasion_display_b = "" /\ readings_display_b = ""
    /\ OccIdle /\ OrdIdle /\ ScrIdle /\ TtlIdle /\ IdxIdle /\ DupIdle /\ CaseIdle /\ CmpIdle /\ GrpIdle /\ SixIdle /\ PassIdle /\ KeyIdle /\ ProcIdle /\ ChrIdle /\ GenIdle

\* the grouping loop: the occasion texts and the non-empty readings of the group
CollectGroup ==
    /\ pc = "start"
    /\ display_names' = {occasion_entries[k].occasion : k \in 1..Len(occasion_entries)}
    /\ readings_set' = {occasion_entries[k].readings : k \in 1..Len(occasion_entries)} \ {""}
    /\ pc' = "collected"
    /\ UNCHANGED <<occasion_entries, occasion_display_a, readings_display_a, occasion_display_b, readings_display_b, occVars, ordVars, scrVars, ttlVars, idxVars, dupVars, caseVars, cmpVars, grpVars, sixVars, passVars, keyVars, procVars, chrVars, genVars>>

\* one run renders the group
RenderGroup ==
    /\ pc = "collected"
    /\ occasion_display_a' \in OccasionDisplays(normalize_occasion(occasion_entries[1].occasion), display_names)
    /\ readings_display_a' \in ReadingsDisplays(readings_set)
    /\ pc' = "rendered"
    /\ UNCHANGED <<occasion_entries, display_names, readings_set, occasion_display_b, readings_display_b, occVars, ordVars, scrVars, ttlVars, idxVars, dupVars, caseVars, cmpVars, grpVars, sixVars, passVars, keyVars, procVars, chrVars, genVars>>

\* another run renders the same group
RenderGroupAgain ==
    /\ pc = "rendered"
    /\ occasion_display_b' \in OccasionDisplays(normalize_occasion(occasion_entries[1].occasion), display_names)
    /\ readings_display_b' \in ReadingsDisplays(readings_set)
    /\ pc' = "done"
    /\ UNCHANGED <<occasion_entries, display_names, readings_set, occasion_display_a, readings_display_a, occVars, ordVars, scrVars, ttlVars, idxVars, dupVars, caseVars, cmpVars, grpVars, sixVars, passVars, keyVars, procVars, chrVars, genVars>>

NextHeading == CollectGroup \/ RenderGroup \/ RenderGroupAgain

SpecHeading == InitHeading /\ [][NextHeading]_vars

\* C28: the heading and the readings line of an occasion group are a function
\* of its member records: two runs over the same records show the same
\* heading and the same readings line, also when several texts tie for the
\* greatest length.
C28_HeadingFunctionOfMembers ==
    pc = "done" => (occasion_display_a = occasion_display_b /\ readings_display_a = readings_display_b)

(***************************************************************************)
(* regenerate_all_indexes.py: main and the page generators on records with *)
(* absent fields and on an empty collection                                *)
(***************************************************************************)
MaxHtmlFiles == 2

\* re.match(r'(\d{4}-\d{2}-\d{2})\.html', filename): the date, "None" without a match
DateOfFilename(filename) ==
    LET shape == /\ Len(filename) >= 15
                 /\ \A i \in {1, 2, 3, 4, 6, 7, 9, 10} : Ch(filename, i) \in Digits
                 /\ Ch(filename, 5) = "-" /\ Ch(filename, 8) = "-"
                 /\ SubSeq(filename, 11, 15) = ".html"
    IN  IF shape THEN Upto(filename, 10) ELSE "None"

\* extract_meditation_data: the fields the generators read; an element that
\* is not in the page gives ''
ExtractRecord(file) ==
    [filename |-> file.name,
     date |-> DateOfFilename(file.name),
     title |-> Strip(file.title),
     occasion_full |-> Strip(file.occasion),
     readings |-> Strip(file.readings),
     content_hash |-> Md5Hex(JoinLines(content_paragraphs(file.paragraphs)))]

\* x['date'] or ''
DateOrEmpty(entry) == IF entry.date = "None" THEN "" ELSE entry.date

\* a sort whose keys are None for some elements and strings for others
\* compares None with a string and raises TypeError
MixedNone(keys) ==
    \E i, j \in 1..Len(keys) : keys[i] = "None" /\ keys[j] # "None"

Dated(data) == SelectSeq(data, LAMBDA x : x.date # "None")

\* datetime.strptime(date, '%Y-%m-%d') of a record's date
StrptimeOutcome(date) ==
    IF date = "None" THEN "TypeError"
    ELSE IF strptime_ok(date) THEN "ok" ELSE "ValueError"

\* generate_chronological_html: sort by (date or ''), latest first; the date
\* range is parsed from the last and the first record; the records of a
\* year are sorted by date
ChronologicalOutcome(data) ==
    LET sorted_data == SortedBy(data, [a, b \in 1..Len(data) |-> StrLess(DateOrEmpty(data[b]), DateOrEmpty(data[a]))])
    IN  IF data = <<>> THEN "ok"
        ELSE IF StrptimeOutcome(sorted_data[Len(data)].date) # "ok"
             THEN StrptimeOutcome(sorted_data[Len(data)].date)
        ELSE IF StrptimeOutcome(sorted_data[1].date) # "ok"
             THEN StrptimeOutcome(sorted_data[1].date)
        ELSE IF MixedNone([k \in 1..Len(Dated(data)) |-> Dated(data)[k].date]) THEN "TypeError"
        ELSE "ok"

\* generate_season_html, generate_by_season_html, generate_lectionary_year_html,
\* generate_title_index_html: the sorts use the key (date or '')
DateOrEmptySortOutcome(data) ==
    IF MixedNone([k \in 1..Len(data) |-> DateOrEmpty(data[k])]) THEN "TypeError" ELSE "ok"

\* generate_by_year_html: only the records with a date are grouped and sorted by date
ByYearOutcome(data) ==
    IF MixedNone([k \in 1..Len(Dated(data)) |-> Dated(data)[k].date]) THEN "TypeError"
    ELSE DateOrEmptySortOutcome(data)

\* generate_scripture_index_html: the items of a book are sorted by
\* (parse_chapter_verse(ref, book), date); two items with the same first
\* component are compared by their dates
ScriptureOutcome(data) ==
    LET items == AllItems(data)
        keys == [k \in 1..Len(items) |-> parse_chapter_verse(items[k].ref, items[k].book)]
    IN  IF \E i, j \in 1..Len(items) :
              /\ items[i].book = items[j].book /\ keys[i] = keys[j]
              /\ items[i].date = "None" /\ items[j].date # "None"
        THEN "TypeError" ELSE "ok"

\* generate_appendix_statistics_html: years_list holds the years of the dated
\* records; the page shows years_list[0] and years_list[-1]
AppendixOutcome(data) ==
    LET years_list == {Upto(Dated(data)[k].date, 4) : k \in 1..Len(Dated(data))}
    IN  IF years_list = {} THEN "IndexError" ELSE DateOrEmptySortOutcome(data)

\* the page generators that main calls
Generators ==
    {"chronological", "season", "by-year", "by-season", "lectionary-year",
     "title-index", "scripture-index", "appendix-statistics"}

GeneratorOutcome(name, data) ==
    CASE name = "chronological" -> ChronologicalOutcome(data)
      [] name = "by-year" -> ByYearOutcome(data)
      [] name = "scripture-index" -> ScriptureOutcome(data)
      [] name = "appendix-statistics" -> AppendixOutcome(data)
      [] OTHER -> DateOrEmptySortOutcome(data)

\* the pages of the meditations directory: a name with or without a date, and
\* the elements of the page, each present or not
HtmlFilePool ==
    [name : {"2012-01-15.html", "2013-02-10.html", "draft.html"},
     title : {"", "Grace"},
     occasion : {"", "Easter Day, Year A"},
     readings : {"", "Psalm 23"},
     paragraphs : {<<>>, <<"x">>},
     readable : {TRUE}]
    \cup {[name |-> "broken.html", title |-> "", occasion |-> "", readings |-> "",
           paragraphs |-> <<>>, readable |-> FALSE]}

\* html_files: sorted(meditations_dir.glob('*.html')), distinct names in name order
InitGenerators ==
    /\ pc = "start"
    /\ \E n \in 0..MaxHtmlFiles : \E l \in [1..n -> HtmlFilePool] :
          /\ \A i, j \in 1..n : i < j => StrLess(l[i].name, l[j].name)
          /\ html_files = l
    /\ read_data = <<>> /\ generator = "" /\ outcome = ""
    /\ OccIdle /\ OrdIdle /\ ScrIdle /\ TtlIdle /\ IdxIdle /\ DupIdle /\ CaseIdle /\ CmpIdle /\ GrpIdle /\ SixIdle /\ PassIdle /\ KeyIdle /\ ProcIdle /\ ChrIdle /\ HdgIdle

\* main: a record per file; a file whose reading raises is reported and left out
ReadMeditationFiles ==
    /\ pc = "start"
    /\ read_data' = LET readable == SelectSeq(html_files, LAMBDA f : f.readable)
                    IN  [k \in 1..Len(readable) |-> ExtractRecord(readable[k])]
    /\ pc' = "read"
    /\ UNCHANGED <<html_files, generator, outcome, occVars, ordVars, scrVars, ttlVars, idxVars, dupVars, caseVars, cmpVars, grpVars, sixVars, passVars, keyVars, procVars, chrVars, hdgVars>>

\* a page generator is called with the records
CallGenerator ==
    /\ pc = "read"
    /\ \E g \in Generators :
          /\ generator' = g
          /\ outcome' = GeneratorOutcome(g, read_data)
    /\ pc' = "called"
    /\ UNCHANGED <<html_files, read_data, occVars, ordVars, scrVars, ttlVars, idxVars, dupVars, caseVars, cmpVars, grpVars, sixVars, passVars, keyVars, procVars, chrVars, hdgVars>>

NextGenerators == ReadMeditationFiles \/ CallGenerator

SpecGenerators == InitGenerators /\ [][NextGenerators]_vars

\* a record with an absent field
AbsentField(entry) ==
    \/ entry.date = "None" \/ entry.title = "" \/ entry.occasion_full = ""
    \/ entry.readings = "" \/ entry.content_hash = Md5Hex("")

\* C21: for a collection of records in which some fields are absent, every
\* index generator completes without raising.
C21_AbsentFieldsNeverRaise ==
    (pc = "called" /\ \E k \in 1..Len(read_data) : AbsentField(read_data[k])) => outcome = "ok"

\* C29: on an empty record collection every page generator called by main
\* completes without error.
C29_EmptyCollectionCompletes ==
    (pc = "called" /\ read_data = <<>>) => outcome = "ok"

====
